---- MODULE Spec2Model ----
(***************************************************************************)
(* Model of the renamer-browser core of image-processing-shell:            *)
(*   models/file_manager.py      generate_filename, rename_file,           *)
(*                               batch_rename_files                        *)
(*   models/thumbnail_manager.py ThumbnailManager                          *)
(*   models/tag_manager.py       TagManager                                *)
(* Strings are sequences of one-character strings, so that sorting, case   *)
(* folding, stripping and number formatting are computed, not assumed.     *)
(***************************************************************************)
EXTENDS FiniteSets, Integers, Sequences, TLC

(***************************************************************************)
(* Characters and strings                                                  *)
(***************************************************************************)
UpperChars == <<"A","B","C","D","E","F","G","H","I","J","K","L","M",
                "N","O","P","Q","R","S","T","U","V","W","X","Y","Z">>

LowerChars == <<"a","b","c","d","e","f","g","h","i","j","k","l","m",
                "n","o","p","q","r","s","t","u","v","w","x","y","z">>

DigitChars == <<"0","1","2","3","4","5","6","7","8","9">>

\* the characters of the model in code point order
CharOrder == <<" ", "!", "-", ".">> \o DigitChars \o UpperChars \o <<"_">> \o LowerChars

Ord(c) == CHOOSE i \in 1..Len(CharOrder) : CharOrder[i] = c

IsUpper(c) == \E i \in 1..Len(UpperChars) : UpperChars[i] = c

\* str.lower() on one character
LowerChar(c) ==
    IF IsUpper(c)
    THEN LowerChars[CHOOSE i \in 1..Len(UpperChars) : UpperChars[i] = c]
    ELSE c

\* str.lower()
Lower(s) == [i \in 1..Len(s) |-> LowerChar(s[i])]

\* s < t for Python strings: lexicographic by code point, a proper prefix is smaller
RECURSIVE StrLess(_, _)
StrLess(s, t) ==
    IF t = <<>> THEN FALSE
    ELSE IF s = <<>> THEN TRUE
    ELSE IF s[1] # t[1] THEN Ord(s[1]) < Ord(t[1])
    ELSE StrLess(Tail(s), Tail(t))

\* sep.join(parts)
RECURSIVE Join(_, _)
Join(parts, sep) ==
    IF parts = <<>> THEN <<>>
    ELSE IF Len(parts) = 1 THEN parts[1]
    ELSE parts[1] \o sep \o Join(Tail(parts), sep)

\* decimal digits of a natural number
RECURSIVE Digits(_)
Digits(n) ==
    IF n < 10 THEN <<DigitChars[n + 1]>>
    ELSE Digits(n \div 10) \o <<DigitChars[(n % 10) + 1]>>

RECURSIVE ZeroPad(_, _)
ZeroPad(s, width) == IF Len(s) >= width THEN s ELSE ZeroPad(<<"0">> \o s, width)

\* f"{counter:03d}": the sign counts in the width of 3
Format03d(counter) ==
    IF counter < 0
    THEN <<"-">> \o ZeroPad(Digits(0 - counter), 2)
    ELSE ZeroPad(Digits(counter), 3)

(***************************************************************************)
(* file_manager.py: pure functions                                         *)
(***************************************************************************)
SUPPORTED_EXTENSIONS ==
    { <<".","j","p","g">>, <<".","j","p","e","g">>, <<".","p","n","g">>, <<".","j","p","2">> }

\* sorted(tags, key=str.lower): stable, so tags with equal keys keep input order.
\* Insert x behind every element whose key is not greater than the key of x.
RECURSIVE InsertByKey(_, _)
InsertByKey(sorted, x) ==
    IF sorted = <<>> THEN <<x>>
    ELSE IF StrLess(Lower(x), Lower(sorted[1])) THEN <<x>> \o sorted
    ELSE <<sorted[1]>> \o InsertByKey(Tail(sorted), x)

RECURSIVE SortFrom(_, _)
SortFrom(sorted, rest) ==
    IF rest = <<>> THEN sorted
    ELSE SortFrom(InsertByKey(sorted, rest[1]), Tail(rest))

SortedTags(tags) == SortFrom(<<>>, tags)

Untitled == <<"u","n","t","i","t","l","e","d">>

generate_filename(prefix, tags, suffix, extension, counter) ==
    LET sorted_tags == SortedTags(tags)
        parts == (IF prefix # <<>> THEN <<prefix>> ELSE <<>>)
                 \o sorted_tags
                 \o (IF suffix # <<>> THEN <<suffix>> ELSE <<>>)
        filename == IF parts # <<>> THEN Join(parts, <<"_">>) ELSE Untitled
        ext == IF extension # <<>> /\ extension[1] # "." THEN <<".">> \o extension
               ELSE extension
    IN  filename \o <<"_">> \o Format03d(counter) \o ext

\* pathlib's PurePath.suffix of a file name
LastDot(name) ==
    IF \E i \in 1..Len(name) : name[i] = "."
    THEN CHOOSE i \in 1..Len(name) : name[i] = "." /\ \A j \in (i+1)..Len(name) : name[j] # "."
    ELSE 0

PathSuffix(name) ==
    LET i == LastDot(name)
    IN  IF 1 < i /\ i < Len(name) THEN SubSeq(name, i, Len(name)) ELSE <<>>

is_supported_image(name) == Lower(PathSuffix(name)) \in SUPPORTED_EXTENSIONS

(***************************************************************************)
(* Bounds of the model                                                     *)
(***************************************************************************)
\* longest tag list handed to generate_filename
MaxTags == 2
\* number of rename_file / batch_rename_files calls in one run
MaxOps == 2
\* longest file list handed to batch_rename_files
MaxBatch == 2
\* batch_rename_files is called after at most this many other calls
MaxOpsBeforeBatch == 0
\* last reading of the file system clock
MaxClock == 1
\* number of get_thumbnail and queue_thumbnail calls in one run
MaxCalls == 3
\* number of TagManager calls and outside edits of tags.json in one run
MaxTagOps == 3
\* number of saves of the tag catalog started in one run
MaxSaves == 3
\* longest list of file names handed to analyze_filenames
MaxFiles == 4

VARIABLES
    genArgs,      \* arguments of the last generate_filename call
    genOut,       \* its return value
    dirs,         \* directory name -> "absent" | "dir" | "file"
    files,        \* directory entries: [dir, name, id, kind]
    opCount,      \* calls made so far
    renArgs,      \* arguments of the last rename_file call
    renResult,    \* the dictionary it returned
    renBefore,    \* the directories and entries when that call started
    renRepeat,    \* that call repeated the call before it on the file it had moved
    bPc,          \* batch_rename_files: "idle" | "loop" | "done"
    bArgs,        \* its arguments
    bIndex,       \* enumerate(file_paths, 1): index of the next item
    bCounter,     \* its local variable counter
    bResults,     \* its list results
    bErrors,      \* its list errors
    bStats,       \* its locals successful, failed, skipped
    bHanded,      \* per item: the counter= argument given to rename_file
    bOutcome,     \* per item: what rename_file returned for it
    bCalls,       \* progress_callback invocations: <<index, total, result>>
    bSummary,     \* the returned summary
    clock,        \* the file system clock that stamps modification times
    source,       \* source image path -> [exists, mtime, version, decodes]
    cache,        \* source image path -> its cache file [exists, mtime, complete, content]
    failedPaths,  \* _failed_paths, named by source path
    inflight,     \* _inflight: source path -> future, 0 for no entry
    futures,      \* future id -> [path, state, phase, snap, detached, callback]
    thr,          \* caller thread -> [pc, op, path, snap, detached, ret]
    calls,        \* get_thumbnail and queue_thumbnail calls made so far
    tagData,      \* TagManager._tag_data: [tags, created, last_modified, version]
    tagFile,      \* tags.json: [kind, data], kind "absent" | "corrupt" | "json"
    tagRet,       \* the last TagManager call: [op, arg, ok, message, raised]
    tagBefore,    \* get_all_tags() when that call started
    tagWas,       \* [data, file]: _tag_data and tags.json when that call started
    tagOps,       \* calls and outside edits so far; the time _utc_iso reads
    adders,       \* thread in add_tag -> [pc, tag, ok, message, raised]
    names,        \* the config directory: file name -> inode, 0 for no such file
    inodes,       \* inode -> [data, lock]: the chunks on disk and who holds flock
    writers,      \* process in _save_tag_data -> [pc, payload, fh, pos, raised]
    seen,         \* what the last reader of tags.json got
    saves,        \* saves started so far
    anKnown,      \* FilenameParser.known_tags
    anLookup,     \* FilenameParser._tag_lookup: lower-case tag -> its spelling
    anFiles,      \* the list handed to analyze_filenames
    anOut,        \* the dictionary it returned
    mover,        \* rename_file inside shutil.move: [pc, result]
    racers,       \* request thread in rename_file -> [pc, args, counter, filename, result]
    shut          \* shutdown: [flag, executor, pc, before]: self._shutdown, the
                  \* executor's _shutdown, caller -> position, caller -> futures
                  \* submitted when its call started

genVars == <<genArgs, genOut>>
fsVars == <<dirs, files, opCount>>
oneVars == <<renArgs, renResult, renBefore, renRepeat>>
batchVars == <<bPc, bArgs, bIndex, bCounter, bResults, bErrors, bStats,
               bHanded, bOutcome, bCalls, bSummary>>
renVars == <<fsVars, oneVars, batchVars>>

thVars == <<clock, source, cache, failedPaths, inflight, futures, thr, calls>>

tagVars == <<tagData, tagFile, tagRet, tagBefore, tagWas, tagOps, adders>>

saveVars == <<names, inodes, writers, seen, saves>>

anVars == <<anKnown, anLookup, anFiles, anOut>>

mvVars == <<mover, racers>>

shVars == <<shut>>

vars == <<genVars, renVars, thVars, tagVars, saveVars, anVars, mvVars, shVars>>

(***************************************************************************)
(* Inputs                                                                  *)
(***************************************************************************)
SeqsUpTo(S, n) == UNION { [1..k -> S] : k \in 0..n }

TagPool == { <<>>, <<"a">>, <<"A">>, <<"b">>, <<"a","b">> }
GenPrefixes == { <<>>, <<"p">> }
GenSuffixes == { <<>>, <<"s">> }
GenExtensions == { <<>>, <<".","j","p","g">>, <<"p","n","g">> }
GenCounters == { -1, 0, 7, 42, 1000 }

(***************************************************************************)
(* generate_filename as an operation                                       *)
(***************************************************************************)
GenCall(prefix, tags, suffix, extension, counter) ==
    [prefix |-> prefix, tags |-> tags, suffix |-> suffix,
     extension |-> extension, counter |-> counter]

\* no call yet: every returned name is non-empty
NotCalled == <<>>

GenIdle ==
    /\ genArgs = GenCall(<<>>, <<>>, <<>>, <<>>, 0)
    /\ genOut = NotCalled

\* the call of generate_filename on the arguments drawn
GenerateFilename ==
    /\ genOut = NotCalled
    /\ genOut' = generate_filename(genArgs.prefix, genArgs.tags, genArgs.suffix,
                                   genArgs.extension, genArgs.counter)
    /\ UNCHANGED <<genArgs, renVars, thVars, tagVars, saveVars, anVars, mvVars, shVars>>

(***************************************************************************)
(* The file system seen by rename_file                                     *)
(***************************************************************************)
DirNames == { "d1", "d2", "d3" }

NameA == <<"a",".","J","P","G">>
NameTxt == <<"c",".","t","x","t">>
NameSub == <<"s",".","p","n","g">>
NameOld == <<"p","_","0","0","0",".","J","P","G">>
NameMissing == <<"m",".","j","p","g">>

\* a value that is no str and no Path (an int, None, ...)
NonPath == <<"nonpath", <<>>>>

Entry(d, n, i, k) == [dir |-> d, name |-> n, id |-> i, kind |-> k]

\* d1 holds an image, a text file, a subdirectory and an image that an
\* earlier run named p_000.JPG; d2 does not exist; d3 is a regular file
FsInit ==
    /\ dirs = [d \in DirNames |-> CASE d = "d1" -> "dir" [] d = "d2" -> "absent" [] OTHER -> "file"]
    /\ files = { Entry("d1", NameA, 1, "file"), Entry("d1", NameOld, 2, "file"),
                 Entry("d1", NameTxt, 3, "file"), Entry("d1", NameSub, 4, "dir") }
    /\ opCount = 0

EntriesAt(fs, path) == { e \in fs : e.dir = path[1] /\ e.name = path[2] }

\* Path.exists()
PathExists(fs, path) == EntriesAt(fs, path) # {}

\* a test that takes whatever exists for a regular file
PathIsFileAny(fs, path) == EntriesAt(fs, path) # {}

\* Path.is_file()
PathIsFile(fs, path) == \E e \in EntriesAt(fs, path) : e.kind = "file"

\* the limit of the counter in rename_file
MaxCounter == 9999

RenameResult(success, old_path, new_path, filename, counter, skipped, error) ==
    [success |-> success, old_path |-> old_path, new_path |-> new_path,
     filename |-> filename, counter |-> counter, skipped |-> skipped, error |-> error]

\* a loop that takes the first name whether or not it is taken
FindUniqueTakesFirst(fs, src, dest, prefix, tags, suffix, counter) ==
    [how |-> "free",
     filename |-> generate_filename(prefix, tags, suffix, PathSuffix(src[2]), counter),
     counter |-> counter]

\* a loop that steps the counter by two
RECURSIVE FindUniqueStepTwo(_, _, _, _, _, _, _)
FindUniqueStepTwo(fs, src, dest, prefix, tags, suffix, counter) ==
    LET new_filename == generate_filename(prefix, tags, suffix, PathSuffix(src[2]), counter)
        dest_path == <<dest, new_filename>>
    IN  IF ~(\E e \in fs : e.dir = dest_path[1] /\ e.name = dest_path[2])
        THEN [how |-> "free", filename |-> new_filename, counter |-> counter]
        ELSE IF { e \in fs : e.dir = dest_path[1] /\ e.name = dest_path[2] }
                = { e \in fs : e.dir = src[1] /\ e.name = src[2] }
        THEN [how |-> "same", filename |-> new_filename, counter |-> counter]
        ELSE IF counter + 2 > 9999
        THEN [how |-> "exhausted", filename |-> new_filename, counter |-> counter + 2]
        ELSE FindUniqueStepTwo(fs, src, dest, prefix, tags, suffix, counter + 2)

\* a loop without the samefile test
RECURSIVE FindUniqueNoSameFile(_, _, _, _, _, _, _)
FindUniqueNoSameFile(fs, src, dest, prefix, tags, suffix, counter) ==
    LET new_filename == generate_filename(prefix, tags, suffix, PathSuffix(src[2]), counter)
        dest_path == <<dest, new_filename>>
    IN  IF ~(\E e \in fs : e.dir = dest_path[1] /\ e.name = dest_path[2])
        THEN [how |-> "free", filename |-> new_filename, counter |-> counter]
        ELSE IF counter + 1 > 9999
        THEN [how |-> "exhausted", filename |-> new_filename, counter |-> counter + 1]
        ELSE FindUniqueNoSameFile(fs, src, dest, prefix, tags, suffix, counter + 1)

\* the while True loop of rename_file
RECURSIVE FindUnique(_, _, _, _, _, _, _)
FindUnique(fs, src, dest, prefix, tags, suffix, counter) ==
    LET new_filename == generate_filename(prefix, tags, suffix, PathSuffix(src[2]), counter)
        dest_path == <<dest, new_filename>>
    IN  IF ~PathExists(fs, dest_path)
        THEN [how |-> "free", filename |-> new_filename, counter |-> counter]
        ELSE IF EntriesAt(fs, dest_path) = EntriesAt(fs, src)
        THEN [how |-> "same", filename |-> new_filename, counter |-> counter]
        ELSE IF counter + 1 > MaxCounter
        THEN [how |-> "exhausted", filename |-> new_filename, counter |-> counter + 1]
        ELSE FindUnique(fs, src, dest, prefix, tags, suffix, counter + 1)

Failure(src, counter, error) ==
    RenameResult(FALSE, src, <<>>, <<>>, counter, FALSE, error)

\* rename_file: the returned dictionary and the file system it leaves
rename_file(fs, ds, src, dest, prefix, tags, suffix, counter) ==
    IF src = NonPath
    THEN [result |-> Failure(src, counter, "Unexpected error"), files |-> fs, dirs |-> ds]
    ELSE IF ~PathExists(fs, src)
    THEN [result |-> Failure(src, counter, "Source file does not exist"),
          files |-> fs, dirs |-> ds]
    ELSE IF ~PathIsFile(fs, src)
    THEN [result |-> Failure(src, counter, "Source path is not a file"),
          files |-> fs, dirs |-> ds]
    ELSE IF ~is_supported_image(src[2])
    THEN [result |-> Failure(src, counter, "File format not supported"),
          files |-> fs, dirs |-> ds]
    ELSE IF ds[dest] = "file"
    THEN [result |-> Failure(src, counter, "Destination path is not a directory"),
          files |-> fs, dirs |-> ds]
    ELSE
        LET ds2 == [ds EXCEPT ![dest] = "dir"]
            found == FindUnique(fs, src, dest, prefix, tags, suffix, counter)
            srcEntry == CHOOSE e \in EntriesAt(fs, src) : TRUE
        IN  CASE found.how = "same" ->
                   [result |-> RenameResult(TRUE, src, <<dest, found.filename>>,
                                            found.filename, found.counter, TRUE, ""),
                    files |-> fs, dirs |-> ds2]
              [] found.how = "exhausted" ->
                   [result |-> Failure(src, found.counter, "Could not find unique filename"),
                    files |-> fs, dirs |-> ds2]
              [] OTHER ->
                   [result |-> RenameResult(TRUE, src, <<dest, found.filename>>,
                                            found.filename, found.counter, FALSE, ""),
                    \* shutil.move: os.rename puts the file at the new path, in
                    \* the place of whatever file is there
                    files |-> ((fs \ {srcEntry}) \ EntriesAt(fs, <<dest, found.filename>>))
                              \cup {Entry(dest, found.filename, srcEntry.id, srcEntry.kind)},
                    dirs |-> ds2]

(***************************************************************************)
(* Inputs of rename_file and batch_rename_files                            *)
(***************************************************************************)
RenPrefixes == { <<"p">> }
RenTagLists == { <<>> }
RenSuffixes == { <<>> }
StartCounters == { 0, MaxCounter }
BatchDirs == { "d1", "d2" }
\* the items of a batch: the two images where they are at first, and a non-path
BatchItems == { <<"d1", NameA>>, <<"d1", NameOld>>, NonPath }

\* every path that names something, and one that names nothing
SourcePaths == { <<e.dir, e.name>> : e \in files } \cup { <<"d1", NameMissing>> }

RenCall(src, dest, prefix, tags, suffix, counter) ==
    [src |-> src, dest |-> dest, prefix |-> prefix, tags |-> tags,
     suffix |-> suffix, counter |-> counter]

OneIdle ==
    /\ renArgs = RenCall(NonPath, "d1", <<>>, <<>>, <<>>, 0)
    /\ renResult = Failure(NonPath, 0, "")
    /\ renBefore = [files |-> {}, dirs |-> [d \in DirNames |-> "absent"]]
    /\ renRepeat = FALSE

(***************************************************************************)
(* batch_rename_files                                                      *)
(***************************************************************************)
\* what the caller passes as progress_callback
Callbacks == { "none", "given" }

BatchCall(file_paths, dest, prefix, tags, suffix, start_counter, callback) ==
    [file_paths |-> file_paths, dest |-> dest, prefix |-> prefix, tags |-> tags,
     suffix |-> suffix, start_counter |-> start_counter, callback |-> callback]

Stats(successful, failed, skipped) ==
    [successful |-> successful, failed |-> failed, skipped |-> skipped]

Summary(total, stats, results, errors) ==
    [total |-> total, successful |-> stats.successful, failed |-> stats.failed,
     skipped |-> stats.skipped, results |-> results, errors |-> errors]

BatchIdle ==
    /\ bPc = "idle"
    /\ bArgs = BatchCall(<<>>, "d1", <<>>, <<>>, <<>>, 0, "none")
    /\ bIndex = 1
    /\ bCounter = 0
    /\ bResults = <<>>
    /\ bErrors = <<>>
    /\ bStats = Stats(0, 0, 0)
    /\ bHanded = <<>>
    /\ bOutcome = <<>>
    /\ bCalls = <<>>
    /\ bSummary = Summary(0, Stats(0, 0, 0), <<>>, <<>>)

\* the locals of an earlier call are gone when the next call starts
OneForget ==
    /\ renArgs' = RenCall(NonPath, "d1", <<>>, <<>>, <<>>, 0)
    /\ renResult' = Failure(NonPath, 0, "")
    /\ renBefore' = [files |-> {}, dirs |-> [d \in DirNames |-> "absent"]]
    /\ renRepeat' = FALSE

BatchForget ==
    /\ bPc' = "idle"
    /\ bArgs' = BatchCall(<<>>, "d1", <<>>, <<>>, <<>>, 0, "none")
    /\ bIndex' = 1
    /\ bCounter' = 0
    /\ bResults' = <<>>
    /\ bErrors' = <<>>
    /\ bStats' = Stats(0, 0, 0)
    /\ bHanded' = <<>>
    /\ bOutcome' = <<>>
    /\ bCalls' = <<>>
    /\ bSummary' = Summary(0, Stats(0, 0, 0), <<>>, <<>>)

\* the call repeats the last one, on the file which that one moved
IsRepeat(call) ==
    /\ renResult.success /\ ~renResult.skipped
    /\ call = [renArgs EXCEPT !.src = renResult.new_path]

\* one call of rename_file (rename_one)
RenameOne ==
    /\ bPc # "loop"
    /\ opCount < MaxOps
    /\ \E src \in SourcePaths, dest \in DirNames, prefix \in RenPrefixes,
          tags \in RenTagLists, suffix \in RenSuffixes, counter \in StartCounters :
        LET r == rename_file(files, dirs, src, dest, prefix, tags, suffix, counter)
        IN  /\ renArgs' = RenCall(src, dest, prefix, tags, suffix, counter)
            /\ renResult' = r.result
            /\ renBefore' = [files |-> files, dirs |-> dirs]
            /\ renRepeat' = IsRepeat(RenCall(src, dest, prefix, tags, suffix, counter))
            /\ files' = r.files
            /\ dirs' = r.dirs
    /\ opCount' = opCount + 1
    /\ BatchForget
    /\ UNCHANGED <<genVars, thVars, tagVars, saveVars, anVars, mvVars, shVars>>

\* the call and the initialisation of the locals
BatchStart ==
    /\ bPc # "loop"
    /\ opCount < MaxOps
    /\ opCount <= MaxOpsBeforeBatch
    /\ \E file_paths \in SeqsUpTo(BatchItems, MaxBatch),
          dest \in BatchDirs, prefix \in RenPrefixes, tags \in RenTagLists,
          suffix \in RenSuffixes, start_counter \in StartCounters, callback \in Callbacks :
        /\ bArgs' = BatchCall(file_paths, dest, prefix, tags, suffix, start_counter, callback)
        /\ bCounter' = start_counter
    /\ bPc' = "loop"
    /\ bIndex' = 1
    /\ bResults' = <<>>
    /\ bErrors' = <<>>
    /\ bStats' = Stats(0, 0, 0)
    /\ bHanded' = <<>>
    /\ bOutcome' = <<>>
    /\ bCalls' = <<>>
    /\ opCount' = opCount + 1
    /\ OneForget
    /\ bSummary' = Summary(0, Stats(0, 0, 0), <<>>, <<>>)
    /\ UNCHANGED <<genVars, thVars, tagVars, saveVars, anVars, mvVars, shVars, dirs, files>>

\* Path(file_path).name inside the log messages raises for a non-path
LogNameRaises(file_path) == file_path = NonPath

Renamed(result) == result.success /\ ~result.skipped

\* statistics that leave out the skipped results
CountResultNoSkip(stats, result) ==
    IF result.success /\ ~result.skipped THEN [stats EXCEPT !.successful = @ + 1]
    ELSE IF result.success THEN stats
    ELSE [stats EXCEPT !.failed = @ + 1]

\* the statistics after one result
CountResult(stats, result) ==
    IF Renamed(result) THEN [stats EXCEPT !.successful = @ + 1]
    ELSE IF result.success THEN [stats EXCEPT !.skipped = @ + 1]
    ELSE [stats EXCEPT !.failed = @ + 1]

\* a next counter that steps from the counter handed in, not from the one used
NextCounterFromHanded(counter, result) ==
    IF result.success /\ ~result.skipped THEN counter + 1 ELSE counter

\* the counter for the next item
NextCounter(counter, result) ==
    IF Renamed(result) THEN result.counter + 1 ELSE counter

\* the rest of one iteration once rename_file has returned result: the
\* result is recorded and counted, the callback is called, the counter steps
BatchRecord(file_path, result) ==
    LET \* the statistics, up to the log message of the branch taken
        stats1 == CountResult(bStats, result)
        errors1 == IF result.success THEN bErrors ELSE Append(bErrors, result)
        raised == LogNameRaises(file_path)
        \* except Exception: a second result for the same item
        error_result == Failure(file_path, bCounter, "Batch processing error")
    IN  /\ bCounter' = NextCounter(bCounter, result)
        /\ bResults' = IF raised THEN Append(Append(bResults, result), error_result)
                       ELSE Append(bResults, result)
        /\ bErrors' = IF raised THEN Append(errors1, error_result) ELSE errors1
        /\ bStats' = IF raised THEN [stats1 EXCEPT !.failed = @ + 1] ELSE stats1
        \* the callback returns or raises; what it raises is logged and dropped
        /\ \E cb \in { "returns", "raises" } :
             bCalls' = IF ~raised /\ bArgs.callback # "none"
                       THEN Append(bCalls, <<bIndex, Len(bArgs.file_paths), result, cb>>)
                       ELSE bCalls
        /\ bHanded' = Append(bHanded, bCounter)
        /\ bOutcome' = Append(bOutcome, result)
        /\ bIndex' = bIndex + 1
        /\ UNCHANGED <<bPc, bArgs, bSummary>>

\* one iteration of the for loop
BatchItem ==
    /\ bPc = "loop"
    /\ bIndex <= Len(bArgs.file_paths)
    /\ \E r \in { rename_file(files, dirs, bArgs.file_paths[bIndex], bArgs.dest, bArgs.prefix,
                                bArgs.tags, bArgs.suffix, bCounter) } :
          /\ files' = r.files
          /\ dirs' = r.dirs
          /\ BatchRecord(bArgs.file_paths[bIndex], r.result)
    /\ UNCHANGED <<genVars, thVars, tagVars, saveVars, anVars, mvVars, shVars, opCount, oneVars>>

\* the summary is built and returned
BatchReturn ==
    /\ bPc = "loop"
    /\ bIndex > Len(bArgs.file_paths)
    /\ bSummary' = Summary(Len(bArgs.file_paths), bStats, bResults, bErrors)
    /\ bPc' = "done"
    /\ UNCHANGED <<genVars, thVars, tagVars, saveVars, anVars, mvVars, shVars, fsVars, oneVars, bArgs, bIndex, bCounter, bResults,
                   bErrors, bStats, bHanded, bOutcome, bCalls>>

\* one dictionary of the list get_batch_preview returns
Preview(old_name, new_name, old_path, counter) ==
    [old_name |-> old_name, new_name |-> new_name, old_path |-> old_path, counter |-> counter]

\* the item is listed: Path(file_path) does not raise and the suffix is supported
PreviewLists(file_path) == file_path # NonPath /\ is_supported_image(file_path[2])

\* the for loop of get_batch_preview from item i on
RECURSIVE PreviewFrom(_, _, _, _, _, _)
PreviewFrom(file_paths, i, prefix, tags, suffix, counter) ==
    IF i > Len(file_paths) THEN <<>>
    ELSE IF ~PreviewLists(file_paths[i])
    THEN PreviewFrom(file_paths, i + 1, prefix, tags, suffix, counter)
    ELSE <<Preview(file_paths[i][2],
                   generate_filename(prefix, tags, suffix, PathSuffix(file_paths[i][2]), counter),
                   file_paths[i], counter)>>
         \o PreviewFrom(file_paths, i + 1, prefix, tags, suffix, counter + 1)

\* get_batch_preview
get_batch_preview(file_paths, prefix, tags, suffix, start_counter) ==
    PreviewFrom(file_paths, 1, prefix, tags, suffix, start_counter)


(***************************************************************************)
(* thumbnail_manager.py: ThumbnailManager                                  *)
(***************************************************************************)
\* canonical source paths; the cache path of a source is a function of it
ImagePaths == { "p1" }
\* threads that call get_thumbnail and queue_thumbnail
Threads == { "t1", "t2" }
\* every call submits at most one future
FutureIds == 1..MaxCalls
\* max_workers of the ThreadPoolExecutor, as the tests construct the manager
max_workers == 2
\* a source image is rewritten at most once per reading of the clock
LastVersion == MaxClock

NoVersion == 0 - 1
\* what a generation found it could not decode
ErrSnap == 0 - 2

\* image_path.suffix of an image and of a file that is no image
SuffixJPG == <<".","J","P","G">>
SuffixTxt == <<".","t","x","t">>

SourceFile(exists, mtime, version, decodes, suffix) ==
    [exists |-> exists, mtime |-> mtime, version |-> version, decodes |-> decodes,
     suffix |-> suffix]

CacheFile(exists, mtime, complete, content) ==
    [exists |-> exists, mtime |-> mtime, complete |-> complete, content |-> content]

NoCacheFile == CacheFile(FALSE, 0, FALSE, NoVersion)

NoFuture == [path |-> "p1", state |-> "unused", phase |-> "none", snap |-> NoVersion,
             detached |-> FALSE, callback |-> FALSE]

NoReturn == [kind |-> "none", handle |-> 0, regenerated |-> FALSE, why |-> "none"]

IdleThread == [pc |-> "idle", op |-> "none", path |-> "p1", snap |-> NoVersion,
               detached |-> FALSE, ret |-> NoReturn]

\* a manager right after __init__, its cache directory empty
ManagerInit ==
    /\ cache = [p \in ImagePaths |-> NoCacheFile]
    /\ failedPaths = {}
    /\ inflight = [p \in ImagePaths |-> 0]
    /\ futures = [f \in FutureIds |-> NoFuture]
    /\ thr = [t \in Threads |-> IdleThread]
    /\ calls = 0

ThIdle ==
    /\ clock = 0
    /\ source = [p \in ImagePaths |-> SourceFile(TRUE, 0, 0, TRUE, SuffixJPG)]
    /\ ManagerInit

\* the sources are images, corrupt files, images under a name with an
\* extension that is not supported, or missing
ThInit ==
    /\ clock = 0
    /\ source \in [ImagePaths -> { SourceFile(TRUE, 0, 0, TRUE, SuffixJPG),
                                   SourceFile(TRUE, 0, 0, FALSE, SuffixJPG),
                                   SourceFile(TRUE, 0, 0, TRUE, SuffixTxt),
                                   SourceFile(FALSE, 0, NoVersion, FALSE, SuffixJPG) }]
    /\ ManagerInit

\* _is_cache_valid with cache_mtime > image_mtime
CacheValidStrict(src, cch) ==
    IF ~cch.exists THEN FALSE
    ELSE IF ~src.exists THEN FALSE
    ELSE cch.mtime > src.mtime

\* _is_cache_valid: stat of a missing source raises OSError
CacheValid(src, cch) ==
    IF ~cch.exists THEN FALSE
    ELSE IF ~src.exists THEN FALSE
    ELSE cch.mtime >= src.mtime

\* the branch of _is_cache_valid that decides
WhyStale(src, cch) ==
    IF ~cch.exists THEN "absent"
    ELSE IF ~src.exists THEN "nosource"
    ELSE IF cch.mtime >= src.mtime THEN "valid" ELSE "older"

\* Image.open and the transformations: the content read, or the failure
Decode(src) ==
    IF Lower(src.suffix) \notin SUPPORTED_EXTENSIONS THEN ErrSnap
    ELSE IF src.exists /\ src.decodes THEN src.version ELSE ErrSnap

\* img.save opens the cache file for writing: it exists and is empty
Truncated == CacheFile(TRUE, clock, FALSE, NoVersion)

\* img.save has written the image to the file it opened
Written(p, snap, detached) ==
    IF detached THEN cache[p] ELSE CacheFile(TRUE, clock, TRUE, snap)

\* _create_error_thumbnail without the record in _failed_paths
FailedAfterForgets(p, snap) == failedPaths

\* _create_error_thumbnail adds the cache path to _failed_paths
FailedAfter(p, snap) == IF snap = ErrSnap THEN failedPaths \cup {p} ELSE failedPaths

OtherVars == <<genVars, renVars, tagVars, saveVars, anVars, mvVars, shVars>>

(* the environment *)
Tick ==
    /\ clock < MaxClock
    /\ clock' = clock + 1
    /\ UNCHANGED <<OtherVars, source, cache, failedPaths, inflight, futures, thr, calls>>

\* somebody writes a new image to the source path
RewriteSource(p) ==
    /\ source[p].version < LastVersion
    /\ source' = [source EXCEPT ![p] = SourceFile(TRUE, clock, source[p].version + 1, TRUE, source[p].suffix)]
    /\ UNCHANGED <<OtherVars, clock, cache, failedPaths, inflight, futures, thr, calls>>

(* get_thumbnail *)
\* the call, up to the return for a valid cache file
GetCheck(t, p) ==
    /\ thr[t].pc = "idle"
    /\ calls < MaxCalls
    /\ calls' = calls + 1
    /\ thr' = [thr EXCEPT ![t] =
                 IF CacheValid(source[p], cache[p])
                 THEN [IdleThread EXCEPT !.op = "get", !.path = p,
                          !.ret = [kind |-> "path", handle |-> 0, regenerated |-> FALSE,
                                   why |-> "valid"]]
                 ELSE [IdleThread EXCEPT !.pc = "open", !.op = "get", !.path = p,
                          !.ret = [NoReturn EXCEPT !.why = WhyStale(source[p], cache[p])]]]
    /\ UNCHANGED <<OtherVars, clock, source, cache, failedPaths, inflight, futures>>

\* _generate_thumbnail on the calling thread: the source is read and the
\* cache file is opened for writing
GetOpen(t) ==
    /\ thr[t].pc = "open"
    /\ cache' = [cache EXCEPT ![thr[t].path] = Truncated]
    /\ thr' = [thr EXCEPT ![t].pc = "flush", ![t].snap = Decode(source[thr[t].path]),
                          ![t].detached = FALSE]
    /\ UNCHANGED <<OtherVars, clock, source, failedPaths, inflight, futures, calls>>

\* the image is written and get_thumbnail returns the cache path
GetFlush(t) ==
    /\ thr[t].pc = "flush"
    /\ cache' = [cache EXCEPT ![thr[t].path] = Written(thr[t].path, thr[t].snap, thr[t].detached)]
    /\ failedPaths' = FailedAfter(thr[t].path, thr[t].snap)
    /\ thr' = [thr EXCEPT ![t].pc = "idle", ![t].snap = NoVersion, ![t].detached = FALSE,
                          ![t].ret = [kind |-> "path", handle |-> 0, regenerated |-> TRUE,
                                      why |-> thr[t].ret.why]]
    /\ UNCHANGED <<OtherVars, clock, source, inflight, futures, calls>>

(* queue_thumbnail *)
\* the call, up to the return of a resolved future for a valid cache file
QueueCheck(t, p) ==
    /\ thr[t].pc = "idle"
    /\ calls < MaxCalls
    /\ calls' = calls + 1
    /\ thr' = [thr EXCEPT ![t] =
                 IF CacheValid(source[p], cache[p])
                 THEN [IdleThread EXCEPT !.op = "queue", !.path = p,
                          !.ret = [kind |-> "resolved", handle |-> 0, regenerated |-> FALSE,
                                   why |-> "valid"]]
                 ELSE [IdleThread EXCEPT !.pc = "lock", !.op = "queue", !.path = p,
                          !.ret = [NoReturn EXCEPT !.why = WhyStale(source[p], cache[p])]]]
    /\ UNCHANGED <<OtherVars, clock, source, cache, failedPaths, inflight, futures>>

Unused == { f \in FutureIds : futures[f].state = "unused" }

\* Future.done()
Done(f) == futures[f].state = "finished"

\* the entry of _inflight that queue_thumbnail hands out again
Existing(p) == IF inflight[p] # 0 /\ ~Done(inflight[p]) THEN inflight[p] ELSE 0

\* with self._lock: return the future in flight, or submit and register one
QueueLocked(t) ==
    /\ thr[t].pc = "lock"
    /\ LET p == thr[t].path
           existing == Existing(p)
       IN  IF existing # 0
           THEN /\ thr' = [thr EXCEPT ![t].pc = "idle",
                                      ![t].ret = [kind |-> "handle", handle |-> existing,
                                                  regenerated |-> FALSE, why |-> "inflight"]]
                /\ UNCHANGED <<inflight, futures>>
           ELSE IF shut.executor
           \* submit raises RuntimeError: cannot schedule new futures after shutdown
           THEN /\ thr' = [thr EXCEPT ![t].pc = "idle",
                                      ![t].ret = [kind |-> "raised", handle |-> 0,
                                                  regenerated |-> FALSE,
                                                  why |-> thr[t].ret.why]]
                /\ UNCHANGED <<inflight, futures>>
           ELSE /\ Unused # {}
                /\ LET f == CHOOSE g \in Unused : \A h \in Unused : g <= h
                   IN  /\ futures' = [futures EXCEPT ![f] =
                                        [NoFuture EXCEPT !.path = p, !.state = "pending",
                                                         !.callback = TRUE]]
                       /\ inflight' = [inflight EXCEPT ![p] = f]
                       /\ thr' = [thr EXCEPT ![t].pc = "idle",
                                             ![t].ret = [kind |-> "handle", handle |-> f,
                                                         regenerated |-> TRUE,
                                                         why |-> thr[t].ret.why]]
    /\ UNCHANGED <<OtherVars, clock, source, cache, failedPaths, calls>>

(* the worker threads of the executor *)
Running == { f \in FutureIds : futures[f].state = "running" }
Pending == { f \in FutureIds : futures[f].state = "pending" }

\* an idle worker takes the oldest work item and starts _generate_thumbnail:
\* the source is read and the cache file is opened for writing
WorkerOpen(f) ==
    /\ f \in Pending
    /\ \A g \in Pending : f <= g
    /\ Cardinality(Running) < max_workers
    /\ cache' = [cache EXCEPT ![futures[f].path] = Truncated]
    /\ futures' = [futures EXCEPT ![f].state = "running", ![f].phase = "flush",
                                  ![f].snap = Decode(source[futures[f].path]),
                                  ![f].detached = FALSE]
    /\ UNCHANGED <<OtherVars, clock, source, failedPaths, inflight, thr, calls>>

\* the image is written, _generate_thumbnail returns and the future is set
WorkerFlush(f) ==
    /\ futures[f].state = "running" /\ futures[f].phase = "flush"
    /\ cache' = [cache EXCEPT ![futures[f].path] =
                    Written(futures[f].path, futures[f].snap, futures[f].detached)]
    /\ failedPaths' = FailedAfter(futures[f].path, futures[f].snap)
    /\ futures' = [futures EXCEPT ![f].state = "finished", ![f].phase = "none",
                                  ![f].snap = NoVersion, ![f].detached = FALSE]
    /\ UNCHANGED <<OtherVars, clock, source, inflight, thr, calls>>

\* a done callback that leaves the entry of a failed generation in place
WorkerCallbackOnSuccess(f) ==
    /\ futures[f].state = "finished" /\ futures[f].callback
    /\ inflight' = [inflight EXCEPT ![futures[f].path] =
                      IF futures[f].path \in failedPaths THEN @ ELSE 0]
    /\ futures' = [futures EXCEPT ![f].callback = FALSE]
    /\ UNCHANGED <<OtherVars, clock, source, cache, failedPaths, thr, calls>>

\* the done callback: self._inflight.pop(image_path, None)
WorkerCallback(f) ==
    /\ futures[f].state = "finished" /\ futures[f].callback
    /\ inflight' = [inflight EXCEPT ![futures[f].path] = 0]
    /\ futures' = [futures EXCEPT ![f].callback = FALSE]
    /\ UNCHANGED <<OtherVars, clock, source, cache, failedPaths, thr, calls>>

(* clear_cache *)
\* a clear_cache that leaves the placeholders of failed generations
ClearCacheKeepsFailed ==
    /\ \E p \in ImagePaths : cache[p].exists
    /\ cache' = [p \in ImagePaths |-> IF p \in failedPaths THEN cache[p] ELSE NoCacheFile]
    /\ thr' = [t \in Threads |->
                 IF thr[t].pc = "flush" THEN [thr[t] EXCEPT !.detached = TRUE] ELSE thr[t]]
    /\ futures' = [f \in FutureIds |->
                     IF futures[f].phase = "flush" THEN [futures[f] EXCEPT !.detached = TRUE]
                     ELSE futures[f]]
    /\ UNCHANGED <<OtherVars, clock, source, failedPaths, inflight, calls>>

\* every cache file is unlinked; who has one open keeps writing to it
ClearCache ==
    /\ \E p \in ImagePaths : cache[p].exists
    /\ cache' = [p \in ImagePaths |-> NoCacheFile]
    /\ thr' = [t \in Threads |->
                 IF thr[t].pc = "flush" THEN [thr[t] EXCEPT !.detached = TRUE] ELSE thr[t]]
    /\ futures' = [f \in FutureIds |->
                     IF futures[f].phase = "flush" THEN [futures[f] EXCEPT !.detached = TRUE]
                     ELSE futures[f]]
    /\ UNCHANGED <<OtherVars, clock, source, failedPaths, inflight, calls>>

(* shutdown *)
\* threads that call shutdown, once each: the second call comes while the
\* first is under way or after it returned
ShutdownCallers == { "s1", "s2" }

\* the futures that executor.submit has returned
Submitted == { f \in FutureIds : futures[f].state # "unused" }

\* every worker thread has left its loop: the work queue is drained and no
\* work item is running or inside set_result
WorkersJoined ==
    \A f \in Submitted : futures[f].state = "finished" /\ ~futures[f].callback

ShIdle ==
    shut = [flag |-> FALSE, executor |-> FALSE,
            pc |-> [s \in ShutdownCallers |-> "idle"],
            before |-> [s \in ShutdownCallers |-> {}]]

\* the call and the test of self._shutdown
ShutdownCheck(s) ==
    /\ shut.pc[s] = "idle"
    /\ shut' = [shut EXCEPT !.pc[s] = IF shut.flag THEN "returned" ELSE "executor",
                            !.before[s] = Submitted]
    /\ UNCHANGED <<genVars, renVars, thVars, tagVars, saveVars, anVars, mvVars>>

\* executor.shutdown: under its lock the executor stops taking work
ShutdownExecutor(s) ==
    /\ shut.pc[s] = "executor"
    /\ shut' = [shut EXCEPT !.executor = TRUE, !.pc[s] = "join"]
    /\ UNCHANGED <<genVars, renVars, thVars, tagVars, saveVars, anVars, mvVars>>

\* a shutdown that does not wait for the worker threads
ShutdownJoinNoWait(s) ==
    /\ shut.pc[s] = "join"
    /\ shut' = [shut EXCEPT !.pc[s] = "flag"]
    /\ UNCHANGED <<genVars, renVars, thVars, tagVars, saveVars, anVars, mvVars>>

\* wait=True: t.join() for every worker thread
ShutdownJoin(s) ==
    /\ shut.pc[s] = "join"
    /\ WorkersJoined
    /\ shut' = [shut EXCEPT !.pc[s] = "flag"]
    /\ UNCHANGED <<genVars, renVars, thVars, tagVars, saveVars, anVars, mvVars>>

\* self._shutdown = True and the return
ShutdownReturn(s) ==
    /\ shut.pc[s] = "flag"
    /\ shut' = [shut EXCEPT !.flag = TRUE, !.pc[s] = "returned"]
    /\ UNCHANGED <<genVars, renVars, thVars, tagVars, saveVars, anVars, mvVars>>

(***************************************************************************)
(* tag_manager.py: TagManager, one thread calling                          *)
(***************************************************************************)
Whitespace == { " " }

RECURSIVE LStrip(_)
LStrip(s) == IF s # <<>> /\ s[1] \in Whitespace THEN LStrip(Tail(s)) ELSE s

RECURSIVE RStrip(_)
RStrip(s) ==
    IF s # <<>> /\ s[Len(s)] \in Whitespace THEN RStrip(SubSeq(s, 1, Len(s) - 1)) ELSE s

\* str.strip()
Strip(s) == RStrip(LStrip(s))

Range(seq) == { seq[i] : i \in 1..Len(seq) }

\* the characters [A-Za-z0-9_]
AsciiWordChars == Range(UpperChars) \cup Range(LowerChars) \cup Range(DigitChars) \cup { "_" }

\* a letter outside ASCII that a request can carry
NonAsciiLetters == { "é" }

\* \w of a str pattern: re.UNICODE is on, so every Unicode letter and digit matches
WordChars == AsciiWordChars \cup NonAsciiLetters

\* VALID_TAG_PATTERN.match(candidate) for ^[\w-]+$
VALID_TAG_PATTERN(candidate) ==
    /\ candidate # <<>>
    /\ \A i \in 1..Len(candidate) : candidate[i] \in WordChars \cup { "-" }

VERSION == "1.0.0"

\* the catalog is constructed with default_tags = ["comics", "nancy"]
default_tags == << <<"c","o","m","i","c","s">>, <<"n","a","n","c","y">> >>

TagPayload(tags, created, last_modified) ==
    [tags |-> tags, created |-> created, last_modified |-> last_modified, version |-> VERSION]

\* _utc_iso(): time passes between calls
Now == tagOps + 2

\* _build_default_payload
DefaultPayload == TagPayload(default_tags, Now, Now)

NoPayload == TagPayload(<<>>, 0, 0)

JsonFile(data) == [kind |-> "json", data |-> data]
AbsentFile == [kind |-> "absent", data |-> NoPayload]
CorruptFile == [kind |-> "corrupt", data |-> NoPayload]
\* JSON that is not an object, such as []
NonDictFile == [kind |-> "nondict", data |-> NoPayload]
\* a JSON object whose "tags" is not a list of strings, such as {"tags": "x"}
BadTagsFile == [kind |-> "badtags", data |-> NoPayload]

TagResult(op, arg, ok, message, raised) ==
    [op |-> op, arg |-> arg, ok |-> ok, message |-> message, raised |-> raised]

Validation(ok, message) == [ok |-> ok, message |-> message]

\* validate_tag comparing the tags as they are spelled
validate_tag_exact(tags, tag) ==
    LET candidate == Strip(tag)
    IN  IF candidate = <<>> THEN Validation(FALSE, "Tag cannot be empty")
        ELSE IF ~VALID_TAG_PATTERN(candidate)
        THEN Validation(FALSE, "Tags may only contain letters, numbers, underscores, or hyphens")
        ELSE IF candidate \in Range(tags)
        THEN Validation(FALSE, "Tag already exists")
        ELSE Validation(TRUE, "OK")

\* validate_tag, on the tags get_all_tags returns
validate_tag(tags, tag) ==
    LET candidate == Strip(tag)
    IN  IF candidate = <<>> THEN Validation(FALSE, "Tag cannot be empty")
        ELSE IF ~VALID_TAG_PATTERN(candidate)
        THEN Validation(FALSE, "Tags may only contain letters, numbers, underscores, or hyphens")
        ELSE IF Lower(candidate) \in { Lower(t) : t \in Range(tags) }
        THEN Validation(FALSE, "Tag already exists")
        ELSE Validation(TRUE, "OK")

\* the file system lets _save_tag_data finish, or raises OSError in it
SaveOutcomes == { "saved", "oserror" }

\* _persist and _save_tag_data of data: tags.json is replaced, or, when the
\* write raises, stays as it was; the temporary file is removed either way
Persisted(data, outcome) == IF outcome = "saved" THEN JsonFile(data) ELSE tagFile

\* the tags the calls are made with
AddCandidates ==
    { <<"a","r","t">>, <<"A","r","t">>, <<" ","a","r","t"," ">>, <<"C","o","m","i","c","s">>,
      <<" ">>, <<"a","!">>, <<"é">> }

RemoveCandidates ==
    { <<"A","R","T">>, <<"c","o","m","i","c","s">>, <<"N","a","n","c","y"," ">>, <<>> }

\* threads of the application that call add_tag on the one catalog
TagThreads == { "t1", "t2" }

IdleAdder == [pc |-> "idle", tag |-> <<>>, ok |-> FALSE, message |-> "", raised |-> FALSE]

\* a catalog right after __init__ on an empty directory
TagIdle ==
    /\ adders = [t \in TagThreads |-> IdleAdder]
    /\ tagOps = 0
    /\ tagData = TagPayload(default_tags, 1, 1)
    /\ tagFile = JsonFile(TagPayload(default_tags, 1, 1))
    /\ tagRet = TagResult("init", <<>>, TRUE, "OK", FALSE)
    /\ tagBefore = default_tags
    /\ tagWas = [data |-> TagPayload(default_tags, 1, 1),
                 file |-> JsonFile(TagPayload(default_tags, 1, 1))]

\* a call returns: time has passed
TagTick ==
    /\ tagOps < MaxTagOps
    /\ tagOps' = tagOps + 1
    /\ tagBefore' = tagData.tags
    /\ tagWas' = [data |-> tagData, file |-> tagFile]
    /\ UNCHANGED <<genVars, renVars, thVars, saveVars, anVars, mvVars, shVars>>

\* a call made while no other thread is inside the catalog
TagStep == TagTick /\ UNCHANGED adders

\* an add_tag that stamps last_modified before it looks at the validation
AddTagTouches(tag, outcome) ==
    LET v == validate_tag(tagData.tags, tag)
        data == TagPayload(Append(tagData.tags, Strip(tag)), tagData.created, Now)
    IN  /\ TagStep
        /\ IF ~v.ok
           THEN /\ outcome = "saved"
                /\ tagRet' = TagResult("add", tag, FALSE, v.message, FALSE)
                /\ tagData' = [tagData EXCEPT !.last_modified = Now]
                /\ UNCHANGED tagFile
           ELSE /\ tagData' = data
                /\ tagFile' = Persisted(data, outcome)
                /\ tagRet' = IF outcome = "saved"
                             THEN TagResult("add", tag, TRUE, "Tag added successfully", FALSE)
                             ELSE TagResult("add", tag, FALSE, "OSError", TRUE)

\* add_tag
AddTag(tag, outcome) ==
    LET v == validate_tag(tagData.tags, tag)
        data == TagPayload(Append(tagData.tags, Strip(tag)), tagData.created, Now)
    IN  /\ TagStep
        /\ IF ~v.ok
           THEN /\ outcome = "saved"
                /\ tagRet' = TagResult("add", tag, FALSE, v.message, FALSE)
                /\ UNCHANGED <<tagData, tagFile>>
           ELSE /\ tagData' = data
                /\ tagFile' = Persisted(data, outcome)
                /\ tagRet' = IF outcome = "saved"
                             THEN TagResult("add", tag, TRUE, "Tag added successfully", FALSE)
                             ELSE TagResult("add", tag, FALSE, "OSError", TRUE)

\* add_tag up to the lock: validate_tag reads the list without the lock
AddValidate(t, tag) ==
    LET v == validate_tag(tagData.tags, tag)
    IN  /\ adders[t].pc # "validated"
        /\ IF ~v.ok
           THEN /\ TagTick
                /\ adders' = [adders EXCEPT ![t] =
                                 [pc |-> "done", tag |-> tag, ok |-> FALSE,
                                  message |-> v.message, raised |-> FALSE]]
                /\ tagRet' = TagResult("add", tag, FALSE, v.message, FALSE)
           ELSE /\ tagOps < MaxTagOps
                /\ adders' = [adders EXCEPT ![t] = [IdleAdder EXCEPT !.pc = "validated",
                                                                     !.tag = tag]]
                /\ UNCHANGED <<genVars, renVars, thVars, saveVars, anVars, mvVars, shVars,
                               tagRet, tagBefore, tagWas, tagOps>>
        /\ UNCHANGED <<tagData, tagFile>>

\* add_tag under the lock: append, _touch_last_modified, _persist, return
AddLocked(t, outcome) ==
    LET tag == adders[t].tag
        data == TagPayload(Append(tagData.tags, Strip(tag)), tagData.created, Now)
    IN  /\ adders[t].pc = "validated"
        /\ TagTick
        /\ tagData' = data
        /\ tagFile' = Persisted(data, outcome)
        /\ tagRet' = IF outcome = "saved"
                     THEN TagResult("add", tag, TRUE, "Tag added successfully", FALSE)
                     ELSE TagResult("add", tag, FALSE, "OSError", TRUE)
        /\ adders' = [adders EXCEPT ![t] =
                         [pc |-> "done", tag |-> tag, ok |-> outcome = "saved",
                          message |-> IF outcome = "saved" THEN "Tag added successfully"
                                      ELSE "OSError",
                          raised |-> outcome # "saved"]]

\* the index remove_tag pops: the last tag whose lower case is the candidate's
RemoveIndex(tags, candidate) ==
    LET found == { i \in 1..Len(tags) : Lower(tags[i]) = Lower(candidate) }
    IN  IF found = {} THEN 0 ELSE CHOOSE i \in found : \A j \in found : j <= i

\* list.pop(idx)
Pop(seq, idx) == SubSeq(seq, 1, idx - 1) \o SubSeq(seq, idx + 1, Len(seq))

\* remove_tag
RemoveTag(tag, outcome) ==
    LET candidate == Strip(tag)
        idx == RemoveIndex(tagData.tags, candidate)
        data == TagPayload(Pop(tagData.tags, idx), tagData.created, Now)
    IN  /\ TagStep
        /\ IF candidate = <<>> \/ idx = 0
           THEN /\ outcome = "saved"
                /\ tagRet' = TagResult("remove", tag, FALSE,
                                       IF candidate = <<>> THEN "Tag cannot be empty"
                                       ELSE "Tag not found", FALSE)
                /\ UNCHANGED <<tagData, tagFile>>
           ELSE /\ tagData' = data
                /\ tagFile' = Persisted(data, outcome)
                /\ tagRet' = IF outcome = "saved"
                             THEN TagResult("remove", tag, TRUE, "Tag removed", FALSE)
                             ELSE TagResult("remove", tag, FALSE, "OSError", TRUE)

\* data.get(key) or self._utc_iso()
OrNow(stamp) == IF stamp = 0 THEN Now ELSE stamp

\* the dictionary _load_tag_data builds from a JSON object
Loaded(file) ==
    LET tags == IF file.kind = "badtags" THEN default_tags ELSE file.data.tags
    IN  TagPayload(IF tags = <<>> THEN default_tags ELSE tags,
                   OrNow(file.data.created), OrNow(file.data.last_modified))

\* _load_tag_data: [data, file, raised] it leaves behind; data is FALSE when
\* it raises before it assigns self._tag_data
Load(outcome) ==
    IF tagFile.kind \in { "absent", "corrupt" }
    THEN [data |-> DefaultPayload, assigned |-> TRUE, file |-> Persisted(DefaultPayload, outcome),
          raised |-> IF outcome = "saved" THEN "none" ELSE "OSError"]
    ELSE IF tagFile.kind = "nondict"
    THEN [data |-> NoPayload, assigned |-> FALSE, file |-> tagFile, raised |-> "AttributeError"]
    ELSE [data |-> Loaded(tagFile), assigned |-> TRUE, file |-> tagFile, raised |-> "none"]

\* _load_tag_data saves only when the file is missing or is not JSON
LoadSaves(outcome) == tagFile.kind \in { "absent", "corrupt" } \/ outcome = "saved"

\* reload: _load_tag_data under the lock
Reload(outcome) ==
    LET l == Load(outcome)
    IN  /\ TagStep
        /\ LoadSaves(outcome)
        /\ tagData' = IF l.assigned THEN l.data ELSE tagData
        /\ tagFile' = l.file
        /\ tagRet' = TagResult("reload", <<>>, l.raised = "none",
                               IF l.raised = "none" THEN "OK" ELSE l.raised, l.raised # "none")

\* TagManager(config_dir) on the same directory; the caller goes on with the
\* new instance, or with the one it has when __init__ raises
Construct(outcome) ==
    LET l == Load(outcome)
    IN  /\ TagStep
        /\ LoadSaves(outcome)
        /\ tagData' = IF l.raised = "none" THEN l.data ELSE tagData
        /\ tagFile' = l.file
        /\ tagRet' = TagResult("init", <<>>, l.raised = "none",
                               IF l.raised = "none" THEN "OK" ELSE l.raised, l.raised # "none")

\* reset_to_defaults
ResetToDefaults(outcome) ==
    /\ TagStep
    /\ tagData' = DefaultPayload
    /\ tagFile' = Persisted(DefaultPayload, outcome)
    /\ tagRet' = TagResult("reset", <<>>, outcome = "saved",
                           IF outcome = "saved" THEN "OK" ELSE "OSError", outcome # "saved")

\* somebody deletes tags.json, or writes something to it that is not a catalog
DamageFile(file) ==
    /\ TagStep
    /\ tagFile # file
    /\ tagFile' = file
    /\ tagRet' = TagResult("outside", <<>>, TRUE, "OK", FALSE)
    /\ UNCHANGED tagData

(***************************************************************************)
(* tag_manager.py: _save_tag_data, step by step, by several processes      *)
(***************************************************************************)
\* TagManager instances on one config directory, each in its own process
Writers == { "w1", "w2" }
TagsFile == "tags.json"
\* tags_file.with_suffix(".tmp"): the same name for every writer
TempFile == "tags.tmp"
\* write calls that carry a payload to disk when the buffer is flushed
Chunks == 2
InodeIds == 1..(MaxSaves + 1)
\* a range of a file that nobody has written
Hole == <<0, 0>>

Inode(data, lock) == [data |-> data, lock |-> lock]
FreeInode == Inode(<<>>, "none")

\* the bytes json.dump produces for a payload, cut where the writes end
Whole(payload) == [k \in 1..Chunks |-> <<payload, k>>]

IdleWriter == [pc |-> "idle", payload |-> 0, fh |-> 0, pos |-> 0, raised |-> FALSE]

Absent == <<"absent">>

\* the directory after a TagManager was constructed in it: payload 0 saved
SaveIdle ==
    /\ names = [f \in { TagsFile, TempFile } |-> IF f = TagsFile THEN 1 ELSE 0]
    /\ inodes = [i \in InodeIds |-> IF i = 1 THEN Inode(Whole(0), "none") ELSE FreeInode]
    /\ writers = [w \in Writers |-> IdleWriter]
    /\ seen = Whole(0)
    /\ saves = 0

SaveOthers == <<genVars, renVars, thVars, tagVars, anVars, mvVars, shVars>>

\* inodes no name and no open file refers to
Unlinked ==
    { i \in InodeIds : /\ \A f \in DOMAIN names : names[f] # i
                       /\ \A w \in Writers : writers[w].fh # i }

\* open(temp_file, "w"): the file of that name is truncated, or created
SaveOpen(w) ==
    /\ writers[w].pc = "idle"
    /\ saves < MaxSaves
    /\ saves' = saves + 1
    /\ IF names[TempFile] # 0
       THEN /\ inodes' = [inodes EXCEPT ![names[TempFile]].data = <<>>]
            /\ writers' = [writers EXCEPT ![w] =
                             [IdleWriter EXCEPT !.pc = "flock", !.payload = saves + 1,
                                                !.fh = names[TempFile]]]
            /\ UNCHANGED names
       ELSE /\ Unlinked # {}
            /\ LET i == CHOOSE j \in Unlinked : \A k \in Unlinked : j <= k
               IN  /\ inodes' = [inodes EXCEPT ![i] = FreeInode]
                   /\ names' = [names EXCEPT ![TempFile] = i]
                   /\ writers' = [writers EXCEPT ![w] =
                                    [IdleWriter EXCEPT !.pc = "flock", !.payload = saves + 1,
                                                       !.fh = i]]
    /\ UNCHANGED <<SaveOthers, seen>>

\* fcntl.flock(fh, LOCK_EX): waits while another open file holds the lock
SaveFlock(w) ==
    /\ writers[w].pc = "flock"
    /\ inodes[writers[w].fh].lock = "none"
    /\ inodes' = [inodes EXCEPT ![writers[w].fh].lock = w]
    /\ writers' = [writers EXCEPT ![w].pc = "write"]
    /\ UNCHANGED <<SaveOthers, names, seen, saves>>

\* the data of a file after chunk is written at position pos + 1
WriteAt(data, pos, chunk) ==
    [k \in 1..(IF Len(data) > pos + 1 THEN Len(data) ELSE pos + 1) |->
        IF k = pos + 1 THEN chunk
        ELSE IF k <= Len(data) THEN data[k] ELSE Hole]

\* json.dump, fh.write, fh.flush: one write at the position of this open file
SaveWrite(w) ==
    /\ writers[w].pc = "write"
    /\ writers[w].pos < Chunks
    /\ inodes' = [inodes EXCEPT ![writers[w].fh].data =
                     WriteAt(@, writers[w].pos, <<writers[w].payload, writers[w].pos + 1>>)]
    /\ writers' = [writers EXCEPT ![w].pos = @ + 1]
    /\ UNCHANGED <<SaveOthers, names, seen, saves>>

\* os.fsync and the end of the with block: the file is closed, the lock released
SaveClose(w) ==
    /\ writers[w].pc = "write"
    /\ writers[w].pos = Chunks
    /\ inodes' = [inodes EXCEPT ![writers[w].fh].lock = "none"]
    /\ writers' = [writers EXCEPT ![w].pc = "replace", ![w].fh = 0]
    /\ UNCHANGED <<SaveOthers, names, seen, saves>>

\* temp_file.replace(self.tags_file): FileNotFoundError when the name is gone
SaveReplace(w) ==
    /\ writers[w].pc = "replace"
    /\ IF names[TempFile] # 0
       THEN /\ names' = [names EXCEPT ![TagsFile] = names[TempFile], ![TempFile] = 0]
            /\ writers' = [writers EXCEPT ![w].pc = "cleanup"]
       ELSE /\ writers' = [writers EXCEPT ![w].pc = "cleanup", ![w].raised = TRUE]
            /\ UNCHANGED names
    /\ UNCHANGED <<SaveOthers, inodes, seen, saves>>

\* finally: if temp_file.exists(): temp_file.unlink()
SaveCleanup(w) ==
    /\ writers[w].pc = "cleanup"
    /\ names' = [names EXCEPT ![TempFile] = 0]
    /\ writers' = [writers EXCEPT ![w] = IdleWriter]
    /\ UNCHANGED <<SaveOthers, inodes, seen, saves>>

\* the process dies inside _save_tag_data: its file is closed, nothing is
\* cleaned up; the application is started again later
Crash(w) ==
    /\ writers[w].pc # "idle"
    /\ writers' = [writers EXCEPT ![w] = IdleWriter]
    /\ inodes' = [i \in InodeIds |->
                    IF inodes[i].lock = w THEN [inodes[i] EXCEPT !.lock = "none"] ELSE inodes[i]]
    /\ UNCHANGED <<SaveOthers, names, seen, saves>>

\* what open(tags_file) and json.load get to read
OnDisk(f) == IF names[f] = 0 THEN Absent ELSE inodes[names[f]].data

\* _load_tag_data of another instance reads tags.json
ReadTags ==
    /\ seen # OnDisk(TagsFile)
    /\ seen' = OnDisk(TagsFile)
    /\ UNCHANGED <<SaveOthers, names, inodes, writers, saves>>

(***************************************************************************)
(* The filename analyzer: models/filename_parser.py                        *)
(***************************************************************************)
\* the characters of the model that SEPARATORS = r'[_\-\s]+' matches
SEPARATORS == {"_", "-", " "}

\* Path(filename).stem of a file name without directories
Stem(filename) == SubSeq(filename, 1, Len(filename) - Len(PathSuffix(filename)))

\* re.split(SEPARATORS, name) without its empty parts, read from position i on
RECURSIVE SplitParts(_, _, _, _)
SplitParts(name, i, part, parts) ==
    LET closed == IF part = <<>> THEN parts ELSE Append(parts, part)
    IN  IF i > Len(name) THEN closed
        ELSE IF name[i] \in SEPARATORS THEN SplitParts(name, i + 1, <<>>, closed)
        ELSE SplitParts(name, i + 1, Append(part, name[i]), parts)

parse_filename(filename) == SplitParts(Stem(filename), 1, <<>>, <<>>)

\* the dictionaries {tag.lower(): tag for tag in set(known_tags)} can be: of the
\* spellings that share a lower-case key, the one the set yields last stays
TagLookups(known_tags) ==
    { lookup \in [ { Lower(tag) : tag \in known_tags } -> known_tags ] :
        \A key \in DOMAIN lookup : Lower(lookup[key]) = key }

\* one entry per part that is a known tag, in the spelling of the lookup
identify_tags_in_filename(lookup, filename) ==
    LET IsTag(part) == Lower(part) \in DOMAIN lookup
        found == SelectSeq(parse_filename(filename), IsTag)
    IN  [i \in 1..Len(found) |-> lookup[Lower(found[i])]]

\* the lists of all_tags one after the other, as Counter.update reads them
RECURSIVE Concat(_)
Concat(lists) == IF lists = <<>> THEN <<>> ELSE Head(lists) \o Concat(Tail(lists))

\* keys of a Counter in the order of their first update
RECURSIVE CounterKeys(_)
CounterKeys(seen_tags) ==
    IF seen_tags = <<>> THEN <<>>
    ELSE LET before == CounterKeys(SubSeq(seen_tags, 1, Len(seen_tags) - 1))
             tag == seen_tags[Len(seen_tags)]
         IN  IF tag \in Range(before) THEN before ELSE Append(before, tag)

\* tag_counter after the loop of updates: one count per entry
CountOccurrences(all_tags) ==
    LET seen_tags == Concat(all_tags)
    IN  [tag \in Range(seen_tags) |->
            Cardinality({ i \in 1..Len(seen_tags) : seen_tags[i] = tag })]

tag_counter(all_tags) == CountOccurrences(all_tags)

Reverse(list) == [i \in 1..Len(list) |-> list[Len(list) + 1 - i]]

\* the same loop comparing the parts as they are spelled
find_common_prefix_cased(all_parts) ==
    IF all_parts = <<>> THEN <<>>
    ELSE LET lengths == { Len(all_parts[k]) : k \in 1..Len(all_parts) }
             min_length == CHOOSE n \in lengths : \A m \in lengths : n <= m
             Same(i) == Cardinality({ all_parts[k][i] : k \in 1..Len(all_parts) }) = 1
             stop == CHOOSE n \in 0..min_length :
                        /\ \A i \in 1..n : Same(i)
                        /\ n = min_length \/ ~Same(n + 1)
         IN  [i \in 1..stop |-> all_parts[1][i]]

find_common_prefix(all_parts) ==
    IF all_parts = <<>> THEN <<>>
    ELSE LET lengths == { Len(all_parts[k]) : k \in 1..Len(all_parts) }
             min_length == CHOOSE n \in lengths : \A m \in lengths : n <= m
             Same(i) == Cardinality({ Lower(all_parts[k][i]) : k \in 1..Len(all_parts) }) = 1
             stop == CHOOSE n \in 0..min_length :
                        /\ \A i \in 1..n : Same(i)
                        /\ n = min_length \/ ~Same(n + 1)
         IN  [i \in 1..stop |-> all_parts[1][i]]

find_common_suffix(all_parts) ==
    IF all_parts = <<>> THEN <<>>
    ELSE Reverse(find_common_prefix([k \in 1..Len(all_parts) |-> Reverse(all_parts[k])]))

Patterns(common_tags, common_prefix, common_suffix, tag_frequency, suggested_tags, suggested_prefix, suggested_suffix) ==
    [common_tags |-> common_tags, common_prefix |-> common_prefix,
     common_suffix |-> common_suffix, tag_frequency |-> tag_frequency,
     suggested_tags |-> suggested_tags, suggested_prefix |-> suggested_prefix,
     suggested_suffix |-> suggested_suffix]

\* the empty dictionary {}
EmptyDict == [tag \in {} |-> 0]

find_common_patterns(lookup, filenames) ==
    IF filenames = <<>> THEN Patterns(<<>>, <<>>, <<>>, EmptyDict, <<>>, <<>>, <<>>)
    ELSE LET all_parts == [k \in 1..Len(filenames) |-> parse_filename(filenames[k])]
             all_tags == [k \in 1..Len(filenames) |->
                             identify_tags_in_filename(lookup, filenames[k])]
             counter == tag_counter(all_tags)
             \* count >= len(filenames) / 2 on the reals
             Frequent(tag) == 2 * counter[tag] >= Len(filenames)
             keys == CounterKeys(Concat(all_tags))
             NotTag(part) == Lower(part) \notin DOMAIN lookup
             suggested_prefix == Join(SelectSeq(find_common_prefix(all_parts), NotTag), <<"_">>)
             suggested_suffix == Join(SelectSeq(find_common_suffix(all_parts), NotTag), <<"_">>)
         IN  Patterns(keys, suggested_prefix, suggested_suffix, counter,
                      SelectSeq(keys, Frequent), suggested_prefix, suggested_suffix)

analyze_filenames(lookup, filenames) ==
    LET patterns == find_common_patterns(lookup, filenames)
    IN  [suggested_tags |-> patterns.suggested_tags,
         suggested_prefix |-> patterns.suggested_prefix,
         suggested_suffix |-> patterns.suggested_suffix,
         tag_frequency |-> patterns.tag_frequency,
         analysis |-> [total_files |-> Len(filenames),
                       unique_tags_found |-> Len(patterns.common_tags),
                       has_common_prefix |-> patterns.common_prefix # <<>>,
                       has_common_suffix |-> patterns.common_suffix # <<>>]]

\* the file names and the known tags a request is made of
FilenamePool ==
    { <<"a","r","t","_","a","r","t",".","j","p","g">>,
      <<"A","R","T","_","x",".","j","p","g">>,
      <<"x","-","i","n","k",".","p","n","g">>,
      <<"x",".","j","p","g">>,
      <<"b"," ","i","n","k",".","j","p","g">> }

KnownTagSets ==
    { { <<"a","r","t">>, <<"i","n","k">> },
      { <<"a","r","t">>, <<"A","r","t">>, <<"i","n","k">> },
      { <<"I","n","k">> } }

\* before the call
NotAnalyzed == [analysis |-> "none"]

AnIdle ==
    /\ anKnown = {}
    /\ anLookup = EmptyDict
    /\ anFiles = <<>>
    /\ anOut = NotAnalyzed

\* FilenameParser(known_tags).analyze_filenames(filenames) on the request drawn
AnalyzeFilenames ==
    /\ anOut = NotAnalyzed
    /\ anOut' = analyze_filenames(anLookup, anFiles)
    /\ UNCHANGED <<genVars, renVars, thVars, tagVars, saveVars, mvVars, shVars, anKnown, anLookup, anFiles>>

(***************************************************************************)
(* shutil.move inside rename_file, step by step                            *)
(***************************************************************************)
\* the file system each directory is on: d2 is on another one than d1
Mount == [d \in DirNames |-> IF d = "d2" THEN "disk2" ELSE "disk1"]

\* a call of rename_file that is not inside shutil.move
Mover(pc, result) == [pc |-> pc, result |-> result]

MoveIdle ==
    /\ mover = Mover("idle", Failure(NonPath, 0, ""))
    /\ racers = [r \in { "r1", "r2", "b" } |-> [pc |-> "idle", args |-> RenCall(NonPath, "d1", <<>>, <<>>, <<>>, 0),
                                          counter |-> 0, filename |-> <<>>,
                                          result |-> Failure(NonPath, 0, "")]]

\* the inode copy2 creates
FreshId(fs) == 1 + (CHOOSE i \in { e.id : e \in fs } : \A e \in fs : e.id <= i)

\* rename_file up to the end of os.rename: validation, mkdir and the loop,
\* then os.rename, which moves the entry in one step on one file system and
\* raises OSError between two; shutil.move then copies the file to dest_path
MoveCall ==
    /\ mover.pc # "copied"
    /\ opCount < MaxOps
    /\ \E src \in SourcePaths, dest \in DirNames, counter \in StartCounters, prefix \in RenPrefixes :
        LET r == rename_file(files, dirs, src, dest, prefix, <<>>, <<>>, counter)
            copies == Renamed(r.result) /\ Mount[src[1]] # Mount[dest]
        IN  /\ renArgs' = RenCall(src, dest, prefix, <<>>, <<>>, counter)
            /\ renBefore' = [files |-> files, dirs |-> dirs]
            /\ renRepeat' = FALSE
            /\ dirs' = r.dirs
            /\ files' = IF copies
                        THEN files \cup {Entry(dest, r.result.filename, FreshId(files), "file")}
                        ELSE r.files
            /\ renResult' = IF copies THEN Failure(NonPath, 0, "") ELSE r.result
            /\ mover' = Mover(IF copies THEN "copied" ELSE "done", r.result)
    /\ opCount' = opCount + 1
    /\ UNCHANGED <<genVars, batchVars, thVars, tagVars, saveVars, anVars, shVars, racers>>

\* os.unlink(src) after the copy, and the return of rename_file
MoveUnlink ==
    /\ mover.pc = "copied"
    /\ files' = files \ EntriesAt(files, renArgs.src)
    /\ renResult' = mover.result
    /\ mover' = Mover("done", mover.result)
    /\ UNCHANGED <<genVars, batchVars, thVars, tagVars, saveVars, anVars, shVars, racers,
                   dirs, opCount, renArgs, renBefore, renRepeat>>

(***************************************************************************)
(* file_manager.py: rename_file called by concurrent requests, step by step *)
(***************************************************************************)
\* request threads of the server inside rename_file
Racers == { "r1", "r2" }

\* the thread that runs batch_rename_files
BatchThread == "b"

\* two images of d1
RaceSources == { <<"d1", NameA>>, <<"d1", NameOld>> }

\* starting counters: below zero, zero, the limit and above the limit
RaceCounters == { 0 - 1, 0, MaxCounter, MaxCounter + 1 }

NoRenameResult == Failure(NonPath, 0, "")

\* the locals of one call: [pc, args, counter, filename, result]
Racer(pc, args, counter, filename, result) ==
    [pc |-> pc, args |-> args, counter |-> counter, filename |-> filename, result |-> result]

IdleRacer == Racer("idle", RenCall(NonPath, "d1", <<>>, <<>>, <<>>, 0), 0, <<>>, NoRenameResult)

\* the call with the given arguments, up to the while loop: the source is
\* validated and the destination directory is created
RaceCallWith(r, src, dest, prefix, tags, suffix, counter) ==
    LET args == RenCall(src, dest, prefix, tags, suffix, counter)
        failed(error) == Racer("done", args, counter, <<>>, Failure(src, counter, error))
    IN  /\ racers[r].pc = "idle"
        \* Path(src_path) raises TypeError for a value that is no path
        /\ IF src = NonPath
           THEN /\ racers' = [racers EXCEPT ![r] = failed("Unexpected error")]
                /\ UNCHANGED dirs
           ELSE IF ~PathExists(files, src)
           THEN /\ racers' = [racers EXCEPT ![r] = failed("Source file does not exist")]
                /\ UNCHANGED dirs
           ELSE IF ~PathIsFile(files, src)
           THEN /\ racers' = [racers EXCEPT ![r] = failed("Source path is not a file")]
                /\ UNCHANGED dirs
           ELSE IF ~is_supported_image(src[2])
           THEN /\ racers' = [racers EXCEPT ![r] = failed("File format not supported")]
                /\ UNCHANGED dirs
           ELSE IF dirs[dest] = "file"
           THEN /\ racers' = [racers EXCEPT ![r] = failed("Destination path is not a directory")]
                /\ UNCHANGED dirs
           ELSE /\ racers' = [racers EXCEPT ![r] = Racer("loop", args, counter, <<>>, NoRenameResult)]
                /\ dirs' = [dirs EXCEPT ![dest] = "dir"]
        /\ UNCHANGED <<genVars, oneVars, batchVars, thVars, tagVars, saveVars, anVars, shVars,
                       mover, files, opCount>>

\* a request calls rename_file
RaceCall(r) ==
    \E src \in RaceSources, dest \in DirNames, prefix \in RenPrefixes, counter \in RaceCounters :
        RaceCallWith(r, src, dest, prefix, <<>>, <<>>, counter)

\* an iteration that tries the same counter again when the name is taken
RaceTryNoStep(r) ==
    LET me == racers[r]
        a == me.args
        new_filename == generate_filename(a.prefix, a.tags, a.suffix, PathSuffix(a.src[2]), me.counter)
        dest_path == <<a.dest, new_filename>>
    IN  /\ me.pc = "loop"
        /\ racers' = [racers EXCEPT ![r] =
             IF ~PathExists(files, dest_path)
             THEN [me EXCEPT !.pc = "move", !.filename = new_filename]
             ELSE IF ~PathExists(files, a.src)
             THEN [me EXCEPT !.pc = "done",
                             !.result = Failure(a.src, me.counter, "Unexpected error")]
             ELSE IF EntriesAt(files, dest_path) = EntriesAt(files, a.src)
             THEN [me EXCEPT !.pc = "done",
                             !.result = RenameResult(TRUE, a.src, dest_path, new_filename,
                                                     me.counter, TRUE, "")]
             ELSE me]
        /\ UNCHANGED <<genVars, oneVars, batchVars, thVars, tagVars, saveVars, anVars, shVars,
                       mover, dirs, files, opCount>>

\* one iteration of the while True loop
RaceTry(r) ==
    LET me == racers[r]
        a == me.args
        new_filename == generate_filename(a.prefix, a.tags, a.suffix, PathSuffix(a.src[2]), me.counter)
        dest_path == <<a.dest, new_filename>>
    IN  /\ me.pc = "loop"
        /\ racers' = [racers EXCEPT ![r] =
             IF ~PathExists(files, dest_path)
             THEN [me EXCEPT !.pc = "move", !.filename = new_filename]
             \* samefile stats the source: FileNotFoundError when it has gone
             ELSE IF ~PathExists(files, a.src)
             THEN [me EXCEPT !.pc = "done",
                             !.result = Failure(a.src, me.counter, "Unexpected error")]
             ELSE IF EntriesAt(files, dest_path) = EntriesAt(files, a.src)
             THEN [me EXCEPT !.pc = "done",
                             !.result = RenameResult(TRUE, a.src, dest_path, new_filename,
                                                     me.counter, TRUE, "")]
             ELSE IF me.counter + 1 > MaxCounter
             THEN [me EXCEPT !.pc = "done", !.counter = me.counter + 1,
                             !.result = Failure(a.src, me.counter + 1,
                                                "Could not find unique filename")]
             ELSE [me EXCEPT !.counter = me.counter + 1]]
        /\ UNCHANGED <<genVars, oneVars, batchVars, thVars, tagVars, saveVars, anVars, shVars,
                       mover, dirs, files, opCount>>

\* shutil.move and the return: os.rename puts the file at the new path, in
\* the place of whatever file is there by now; FileNotFoundError when the
\* source has gone
RaceMove(r) ==
    LET me == racers[r]
        a == me.args
        dest_path == <<a.dest, me.filename>>
    IN  /\ me.pc = "move"
        /\ IF ~PathExists(files, a.src)
           THEN /\ racers' = [racers EXCEPT ![r] =
                     [me EXCEPT !.pc = "done",
                                !.result = Failure(a.src, me.counter, "Unexpected error")]]
                /\ UNCHANGED files
           ELSE LET srcEntry == CHOOSE e \in EntriesAt(files, a.src) : TRUE
                IN  /\ files' = ((files \ {srcEntry}) \ EntriesAt(files, dest_path))
                                \cup {Entry(a.dest, me.filename, srcEntry.id, srcEntry.kind)}
                    /\ racers' = [racers EXCEPT ![r] =
                         [me EXCEPT !.pc = "done",
                                    !.result = RenameResult(TRUE, a.src, dest_path, me.filename,
                                                            me.counter, FALSE, "")]]
        /\ UNCHANGED <<genVars, oneVars, batchVars, thVars, tagVars, saveVars, anVars, shVars,
                       mover, dirs, opCount>>

(* batch_rename_files with the steps of rename_file visible *)
\* the for loop calls rename_file for the next item
BatchItemCall ==
    /\ bPc = "loop"
    /\ bIndex <= Len(bArgs.file_paths)
    /\ RaceCallWith(BatchThread, bArgs.file_paths[bIndex], bArgs.dest, bArgs.prefix,
                    bArgs.tags, bArgs.suffix, bCounter)

\* rename_file has returned: the rest of the iteration
BatchItemDone ==
    /\ bPc = "loop"
    /\ racers[BatchThread].pc = "done"
    /\ BatchRecord(bArgs.file_paths[bIndex], racers[BatchThread].result)
    /\ racers' = [racers EXCEPT ![BatchThread] = IdleRacer]
    /\ UNCHANGED <<genVars, thVars, tagVars, saveVars, anVars, shVars, mover, fsVars, oneVars>>

(***************************************************************************)
(* Specifications                                                          *)
(***************************************************************************)
GenInit ==
    /\ \E prefix \in GenPrefixes, tags \in SeqsUpTo(TagPool, MaxTags),
          suffix \in GenSuffixes, extension \in GenExtensions, counter \in GenCounters :
        genArgs = GenCall(prefix, tags, suffix, extension, counter)
    /\ genOut = NotCalled
    /\ FsInit /\ OneIdle /\ BatchIdle /\ ThIdle /\ TagIdle /\ SaveIdle /\ AnIdle /\ MoveIdle /\ ShIdle

GenNext == GenerateFilename

\* generate_filename applied to every input of the bounded sets
SpecGen == GenInit /\ [][GenNext]_vars

RenInit == GenIdle /\ FsInit /\ OneIdle /\ BatchIdle /\ ThIdle /\ TagIdle /\ SaveIdle /\ AnIdle /\ MoveIdle /\ ShIdle

RenNext == RenameOne \/ BatchStart \/ BatchItem \/ BatchReturn

\* sequential calls of rename_file and batch_rename_files on one file system
SpecRename == RenInit /\ [][RenNext]_vars

ThumbInit == GenIdle /\ FsInit /\ OneIdle /\ BatchIdle /\ ThInit /\ TagIdle /\ SaveIdle /\ AnIdle /\ MoveIdle /\ ShIdle

\* the steps of the callers T, of the workers and of the environment
ThumbSteps(T) ==
    \/ Tick
    \/ ClearCache
    \/ \E p \in ImagePaths : RewriteSource(p)
    \/ \E t \in T, p \in ImagePaths : GetCheck(t, p) \/ QueueCheck(t, p)
    \/ \E t \in T : GetOpen(t) \/ GetFlush(t) \/ QueueLocked(t)
    \/ \E f \in FutureIds : WorkerOpen(f) \/ WorkerFlush(f) \/ WorkerCallback(f)

ThumbNext == ThumbSteps(Threads)

\* threads calling get_thumbnail and queue_thumbnail on one ThumbnailManager
SpecThumb == ThumbInit /\ [][ThumbNext]_vars

ThumbOneNext == ThumbSteps({"t1"})

\* one thread calling get_thumbnail and queue_thumbnail, beside the workers
SpecThumbOne == ThumbInit /\ [][ThumbOneNext]_vars

\* the worker threads of the executor run while there is work for them
WorkerSteps == \E f \in FutureIds : WorkerOpen(f) \/ WorkerFlush(f) \/ WorkerCallback(f)

\* one thread calling queue_thumbnail and clear_cache, beside the workers
QueueNext ==
    \/ ClearCache
    \/ \E p \in ImagePaths : QueueCheck("t1", p)
    \/ QueueLocked("t1")
    \/ WorkerSteps

\* the queue with workers that are scheduled
SpecQueueLive == ThumbInit /\ [][QueueNext]_vars /\ WF_vars(WorkerSteps)

ClearNext ==
    \/ QueueNext
    \/ \E p \in ImagePaths : GetCheck("t1", p)
    \/ GetOpen("t1")
    \/ GetFlush("t1")

\* one thread calling get_thumbnail, queue_thumbnail and clear_cache, beside
\* workers that are scheduled
SpecClear == ThumbInit /\ [][ClearNext]_vars /\ WF_vars(WorkerSteps)

ShutdownSteps ==
    \E s \in ShutdownCallers :
        ShutdownCheck(s) \/ ShutdownExecutor(s) \/ ShutdownJoin(s) \/ ShutdownReturn(s)

ShutdownNext ==
    \/ \E p \in ImagePaths : QueueCheck("t1", p)
    \/ QueueLocked("t1")
    \/ WorkerSteps
    \/ ShutdownSteps

\* the steps of a shutdown call that is under way
ShutdownRuns ==
    \E s \in ShutdownCallers : ShutdownExecutor(s) \/ ShutdownJoin(s) \/ ShutdownReturn(s)

\* one thread calling queue_thumbnail and two threads calling shutdown; the workers
\* and the threads inside shutdown are scheduled
SpecShutdown ==
    ThumbInit /\ [][ShutdownNext]_vars /\ WF_vars(WorkerSteps) /\ WF_vars(ShutdownRuns)

TagInit == GenIdle /\ FsInit /\ OneIdle /\ BatchIdle /\ ThIdle /\ TagIdle /\ SaveIdle /\ AnIdle /\ MoveIdle /\ ShIdle

TagNext ==
    \/ \E tag \in AddCandidates, outcome \in SaveOutcomes : AddTag(tag, outcome)
    \/ \E tag \in RemoveCandidates, outcome \in SaveOutcomes : RemoveTag(tag, outcome)
    \/ \E outcome \in SaveOutcomes : Reload(outcome) \/ ResetToDefaults(outcome)
    \/ \E outcome \in SaveOutcomes : Construct(outcome)
    \/ \E file \in { AbsentFile, CorruptFile, NonDictFile, BadTagsFile } : DamageFile(file)

\* one thread calling add_tag, remove_tag, reload and reset_to_defaults
SpecTag == TagInit /\ [][TagNext]_vars

TagRaceNext ==
    \/ \E t \in TagThreads, tag \in AddCandidates : AddValidate(t, tag)
    \/ \E t \in TagThreads, outcome \in SaveOutcomes : AddLocked(t, outcome)

\* the threads of the application calling add_tag on one catalog
SpecTagRace == TagInit /\ [][TagRaceNext]_vars

SaveInit == GenIdle /\ FsInit /\ OneIdle /\ BatchIdle /\ ThIdle /\ TagIdle /\ SaveIdle /\ AnIdle /\ MoveIdle /\ ShIdle

SaveNext ==
    \/ \E w \in Writers : SaveOpen(w) \/ SaveFlock(w) \/ SaveWrite(w) \/ SaveClose(w)
    \/ \E w \in Writers : SaveReplace(w) \/ SaveCleanup(w) \/ Crash(w)
    \/ ReadTags

\* processes saving the tag catalog into one directory, crashing, and a reader
SpecSave == SaveInit /\ [][SaveNext]_vars

AnInit ==
    /\ \E known_tags \in KnownTagSets :
        /\ anKnown = known_tags
        /\ anLookup \in TagLookups(known_tags)
    /\ anFiles \in SeqsUpTo(FilenamePool, MaxFiles)
    /\ anOut = NotAnalyzed
    /\ GenIdle /\ FsInit /\ OneIdle /\ BatchIdle /\ ThIdle /\ TagIdle /\ SaveIdle /\ MoveIdle /\ ShIdle

AnNext == AnalyzeFilenames

\* analyze_filenames applied to every request of the bounded sets
SpecAnalyze == AnInit /\ [][AnNext]_vars

MoveInit == GenIdle /\ FsInit /\ OneIdle /\ BatchIdle /\ ThIdle /\ TagIdle /\ SaveIdle /\ AnIdle /\ MoveIdle /\ ShIdle

MoveNext == MoveCall \/ MoveUnlink

\* rename_file with the steps of shutil.move visible
SpecMove == MoveInit /\ [][MoveNext]_vars

RaceNext == \E r \in Racers : RaceCall(r) \/ RaceTry(r) \/ RaceMove(r)

\* two requests inside rename_file at the same time
SpecRace == MoveInit /\ [][RaceNext]_vars

\* the steps of a batch that is in its loop
BatchRuns ==
    \/ BatchItemCall
    \/ RaceTry(BatchThread)
    \/ RaceMove(BatchThread)
    \/ BatchItemDone
    \/ BatchReturn

\* the steps of the requests that are inside rename_file
RaceRuns == \E r \in Racers : RaceTry(r) \/ RaceMove(r)

\* a run is one call of batch_rename_files, or two requests calling
\* rename_file at the same time
TermNext ==
    \/ (opCount = 0 /\ \A r \in Racers : racers[r].pc = "idle") /\ BatchStart
    \/ BatchRuns
    \/ \E r \in Racers : (bPc = "idle" /\ RaceCall(r)) \/ RaceTry(r) \/ RaceMove(r)

\* every thread that is inside a call is scheduled
SpecTerminate == RenInit /\ [][TermNext]_vars /\ WF_vars(BatchRuns) /\ WF_vars(RaceRuns)

(***************************************************************************)
(* Claims about generate_filename, rename_file and batch_rename_files      *)
(***************************************************************************)
\* the name rename_file generates for the last call at counter c
NameAt(c) ==
    generate_filename(renArgs.prefix, renArgs.tags, renArgs.suffix,
                      PathSuffix(renArgs.src[2]), c)

ValidRequests == \A i \in 1..Len(bArgs.file_paths) : bArgs.file_paths[i] # NonPath

\* C2: when batch_rename_files returns for a list of paths, the summary holds
\* one result per request, in input order, total is the number of requests
\* and successful + failed + skipped = total.
C2_NoItemLost ==
    (bPc = "done" /\ ValidRequests) =>
        /\ bSummary.total = Len(bArgs.file_paths)
        /\ Len(bSummary.results) = Len(bArgs.file_paths)
        /\ \A i \in 1..Len(bSummary.results) :
              bSummary.results[i].old_path = bArgs.file_paths[i]
        /\ bSummary.successful + bSummary.failed + bSummary.skipped = bSummary.total

\* a batch of two paths has returned with one renamed and one skipped item
C2_Witness ==
    /\ bPc = "done" /\ ValidRequests
    /\ Len(bArgs.file_paths) = 2
    /\ bSummary.successful = 1 /\ bSummary.skipped = 1

\* C5: a successful rename_file that did not skip reports the least counter,
\* not below the one requested, whose generated name was free in the
\* destination directory, and the file is at exactly that name afterwards.
C5_LeastFreeCounter ==
    Renamed(renResult) =>
        LET c == renResult.counter
            target == <<renArgs.dest, NameAt(c)>>
        IN  /\ c >= renArgs.counter
            /\ ~PathExists(renBefore.files, target)
            /\ \A k \in renArgs.counter..(c - 1) :
                  PathExists(renBefore.files, <<renArgs.dest, NameAt(k)>>)
            /\ renResult.filename = NameAt(c)
            /\ renResult.new_path = target
            /\ \E e \in renBefore.files :
                  /\ e.dir = renArgs.src[1] /\ e.name = renArgs.src[2]
                  /\ files = (renBefore.files \ {e})
                             \cup {Entry(renArgs.dest, NameAt(c), e.id, e.kind)}

\* a rename that had to pass an occupied name
C5_Witness == Renamed(renResult) /\ renResult.counter > renArgs.counter

\* C6: in batch_rename_files the first item is handed start_counter, the item
\* after a renamed item is handed the counter that item used plus one, the
\* item after a failed or skipped item is handed the same counter again, and
\* the counters of the renamed items increase strictly in input order.
C6_CounterHandedOn ==
    LET n == Len(bHanded)
        \* the counter handed to item i; for i = n + 1 the one kept for the next item
        handed(i) == IF i <= n THEN bHanded[i] ELSE bCounter
    IN  /\ (n = 0 /\ bPc = "loop") => bCounter = bArgs.start_counter
        /\ n > 0 => bHanded[1] = bArgs.start_counter
        /\ \A i \in 1..n :
              handed(i + 1) = IF Renamed(bOutcome[i]) THEN bOutcome[i].counter + 1
                              ELSE handed(i)
        /\ \A i, j \in 1..n :
              (i < j /\ Renamed(bOutcome[i]) /\ Renamed(bOutcome[j]))
                  => bOutcome[i].counter < bOutcome[j].counter

\* two items were renamed, the first one past an occupied name
C6_Witness ==
    /\ Len(bHanded) = 2
    /\ Renamed(bOutcome[1]) /\ Renamed(bOutcome[2])
    /\ bOutcome[1].counter > bHanded[1]
    /\ bHanded[2] = bOutcome[1].counter + 1

Orderings(seq) ==
    { [i \in 1..Len(seq) |-> seq[f[i]]] :
        f \in { g \in [1..Len(seq) -> 1..Len(seq)] :
                  \A i, j \in 1..Len(seq) : g[i] = g[j] => i = j } }

\* C7: generate_filename returns the same name for every ordering of the
\* same collection of tags.
C7_TagOrderIndependent ==
    genOut # NotCalled =>
        \A tags \in Orderings(genArgs.tags) :
            generate_filename(genArgs.prefix, tags, genArgs.suffix,
                              genArgs.extension, genArgs.counter) = genOut

\* C10: a rename_file call that repeats the call before it, on the file that
\* call moved and with the same destination, prefix, tags, suffix and
\* starting counter, succeeds as a skip with the same filename and leaves the
\* directories and their entries as they were.
C10_RepeatIsSkip ==
    renRepeat =>
        /\ renResult.success /\ renResult.skipped
        /\ renResult.filename = renArgs.src[2]
        /\ renResult.new_path = renArgs.src
        /\ files = renBefore.files
        /\ dirs = renBefore.dirs

\* the repeated call came after a rename that had passed an occupied name
C10_Witness == renRepeat /\ renResult.counter > renArgs.counter

\* the generations of thumbnails for p that are in the middle of their work:
\* the source is read and the cache file is open for writing
Generating(p) ==
    { <<"thread", t>> : t \in { u \in Threads : thr[u].path = p /\ thr[u].pc = "flush" } }
        \cup { <<"future", f>> : f \in { g \in Running : futures[g].path = p } }

\* C1: in every interleaving of get_thumbnail and queue_thumbnail calls, at no
\* time do two generations for the same source path execute simultaneously.
C1_OneGenerationPerPath == \A p \in ImagePaths : Cardinality(Generating(p)) <= 1

\* thread t takes the freshness check of get_thumbnail(p) in this step
GetChecks(t, p) ==
    /\ thr[t].pc = "idle"
    /\ calls' = calls + 1
    /\ thr'[t].op = "get"
    /\ thr'[t].path = p

\* the call goes on to _generate_thumbnail
GetRegenerates(t) == thr'[t].pc = "open"

\* the call returns the cache path and nothing is written
GetReturnsEntry(t) ==
    /\ thr'[t].pc = "idle"
    /\ thr'[t].ret.kind = "path"
    /\ ~thr'[t].ret.regenerated
    /\ cache' = cache

\* C8 as stated: get_thumbnail regenerates exactly when the cache file is absent
\* or its modification time is strictly older than the modification time of the
\* source at the check; otherwise it returns the cache path without writing.
C8_RegeneratesIffAbsentOrOlder ==
    [][\A t \in Threads, p \in ImagePaths :
          GetChecks(t, p) =>
              /\ GetRegenerates(t) <=>
                    \/ ~cache[p].exists
                    \/ source[p].exists /\ cache[p].mtime < source[p].mtime
              /\ ~GetRegenerates(t) => GetReturnsEntry(t)]_vars

\* C8 amended: get_thumbnail regenerates exactly when the cache file is absent,
\* or the modification time of the source cannot be read (the source is
\* missing), or the cache file is strictly older than the source at the check;
\* otherwise it returns the cache path without writing.
C8_RegeneratesIffAbsentUnreadableOrOlder ==
    [][\A t \in Threads, p \in ImagePaths :
          GetChecks(t, p) =>
              /\ GetRegenerates(t) <=>
                    \/ ~cache[p].exists
                    \/ ~source[p].exists
                    \/ cache[p].mtime < source[p].mtime
              /\ ~GetRegenerates(t) => GetReturnsEntry(t)]_vars

\* a get_thumbnail that found the cache file older than the rewritten source
\* has regenerated it from the new content
C8_Witness ==
    \E t \in Threads :
        /\ thr[t].op = "get" /\ thr[t].pc = "idle"
        /\ thr[t].ret.regenerated /\ thr[t].ret.why = "older"
        /\ source[thr[t].path].version > 0
        /\ cache[thr[t].path].content = source[thr[t].path].version

\* the futures for p that queue_thumbnail has returned and that have not settled
Unsettled(p) == { f \in FutureIds : futures[f].path = p /\ futures[f].state \in {"pending", "running"} }

\* C9: whenever queue_thumbnail is called for a stale path while a handle that
\* queue_thumbnail returned for the same path has not settled, the call returns
\* that same handle and submits no new generation.
C9_SameHandleWhileUnsettled ==
    [][\A t \in Threads :
          (thr[t].pc = "lock" /\ thr'[t].pc = "idle") =>
              \A f \in Unsettled(thr[t].path) :
                  /\ thr'[t].ret.handle = f
                  /\ futures' = futures]_vars

\* get_all_tags()
get_all_tags == tagData.tags

\* the last call was add_tag with a tag that an existing tag equals when both
\* are lower-cased
AddedCaseVariant ==
    /\ tagRet.op = "add"
    /\ Lower(Strip(tagRet.arg)) \in { Lower(t) : t \in Range(tagBefore) }

\* C3: after any sequence of add_tag, remove_tag, reload and reset_to_defaults
\* no two tags of get_all_tags() are equal when compared case-insensitively,
\* and adding a case variant of an existing tag fails with the duplicate
\* reason and leaves the list unchanged.
C3_NoCaseDuplicates ==
    /\ \A i, j \in 1..Len(get_all_tags) :
          i # j => Lower(get_all_tags[i]) # Lower(get_all_tags[j])
    /\ AddedCaseVariant =>
          /\ ~tagRet.ok
          /\ tagRet.message = "Tag already exists"
          /\ get_all_tags = tagBefore

\* add_tag was refused for a tag spelled unlike every tag of the list, which
\* holds a tag that was added before
C3_Witness ==
    /\ AddedCaseVariant
    /\ Strip(tagRet.arg) \notin Range(get_all_tags)
    /\ tagRet.message = "Tag already exists"
    /\ Range(get_all_tags) \ Range(default_tags) # {}

\* the payloads whose save has started
StartedPayloads == 0..saves

\* a file content that is one payload from its first to its last byte
IsWhole(data) == \E payload \in StartedPayloads : data = Whole(payload)

\* C4: at every point of every interleaving of the steps of saves by one or
\* more writers with a reader, and after a crash at any step, tags.json is
\* absent or holds one complete payload; a reader never gets a partly written
\* file.
C4_BackingFileWhole ==
    /\ OnDisk(TagsFile) = Absent \/ IsWhole(OnDisk(TagsFile))
    /\ seen = Absent \/ IsWhole(seen)

\* the last call was reload or the constructor, on a tags.json that was
\* missing or was not a catalog, and the file system let it save
LoadedDamaged ==
    /\ tagRet.op \in { "reload", "init" }
    /\ tagOps > 0
    /\ tagWas.file.kind # "json"
    /\ tagRet.message # "OSError"

\* C11: whenever tags.json is missing or cannot be parsed as a catalog,
\* constructing the catalog or calling reload returns without raising,
\* get_all_tags() is then the default vocabulary, and tags.json afterwards
\* holds the default vocabulary.
C11_DamagedFileFallsBack ==
    LoadedDamaged =>
        /\ ~tagRet.raised
        /\ get_all_tags = default_tags
        /\ tagFile.kind = "json"
        /\ tagFile.data.tags = default_tags

\* the placeholder is at the cache path of p and p is in _failed_paths, after
\* this step
PlaceholderAfter(p) ==
    /\ cache'[p].exists
    /\ cache'[p].complete
    /\ cache'[p].content = ErrSnap
    /\ p \in failedPaths'

\* thread t returns from a get_thumbnail whose generation failed, with no
\* clear_cache since the cache file was opened
GetFailsNow(t) ==
    /\ thr[t].pc = "flush" /\ thr'[t].pc = "idle"
    /\ thr[t].snap = ErrSnap
    /\ ~thr[t].detached

\* the generation of future f failed and the future is set, with no
\* clear_cache since the cache file was opened
QueuedFailsNow(f) ==
    /\ futures[f].state = "running" /\ futures'[f].state # "running"
    /\ futures[f].snap = ErrSnap
    /\ ~futures[f].detached

\* C12: for every source for which generation fails (corrupt content,
\* unsupported extension, unreadable or missing file), get_thumbnail and the
\* future of queue_thumbnail yield the cache path without raising, a
\* placeholder exists at that path and the path is in the failure set.
C12_FailureYieldsPlaceholder ==
    [][/\ \A t \in Threads :
             GetFailsNow(t) => /\ thr'[t].ret.kind = "path"
                               /\ PlaceholderAfter(thr[t].path)
       /\ \A f \in FutureIds :
             QueuedFailsNow(f) => /\ Done(f)'
                                  /\ PlaceholderAfter(futures[f].path)]_vars

\* a path with an unsupported extension, whose file is an image, has its
\* placeholder and its record, and so has a future that is done
C12_Witness ==
    \E p \in ImagePaths :
        /\ source[p].exists /\ source[p].decodes /\ source[p].suffix = SuffixTxt
        /\ cache[p].exists /\ cache[p].complete /\ cache[p].content = ErrSnap
        /\ p \in failedPaths
        /\ \E f \in FutureIds : futures[f].path = p /\ Done(f)
        /\ \E t \in Threads : thr[t].op = "get" /\ thr[t].ret.regenerated

\* the last call was rename_file, and its locals are still there
RenameOneCalled == renArgs.src # NonPath

\* what was at the source path when the call started
SourceBefore == EntriesAt(renBefore.files, renArgs.src)

\* the source did not exist, was no regular file, or has an extension that
\* is not supported
SourceInvalid ==
    \/ SourceBefore = {}
    \/ \A e \in SourceBefore : e.kind # "file"
    \/ Lower(PathSuffix(renArgs.src[2])) \notin SUPPORTED_EXTENSIONS

Occupied(c) ==
    LET at == EntriesAt(renBefore.files, <<renArgs.dest, NameAt(c)>>)
    IN  at # {} /\ at # SourceBefore

\* the 9999 candidates that start at the counter of the request
Candidates == renArgs.counter..(renArgs.counter + MaxCounter - 1)

\* C14: rename_file fails with the collision-exhaustion error exactly when
\* the 9999 consecutive candidate names starting at the requested counter
\* are all occupied by files other than the source; if one of them is free
\* the call succeeds, whatever the starting counter.
C14_ExhaustedIffAllTaken ==
    (RenameOneCalled /\ ~SourceInvalid /\ renBefore.dirs[renArgs.dest] # "file") =>
        /\ (renResult.error = "Could not find unique filename")
              <=> \A c \in Candidates : Occupied(c)
        /\ (\E c \in Candidates : ~Occupied(c)) => renResult.success

\* C15: after any sequence of add_tag, remove_tag, reload and
\* reset_to_defaults on an initialized catalog, get_all_tags() is non-empty.
C15_NeverEmpty == get_all_tags # <<>>

\* why the tag of the last add_tag does not pass: it is empty after
\* trimming, has a character outside letters, digits, _ and -, or equals a
\* tag of the list when both are lower-cased; "" when it passes
AddRefusal ==
    LET candidate == Strip(tagRet.arg)
    IN  IF candidate = <<>> THEN "Tag cannot be empty"
        ELSE IF \E k \in 1..Len(candidate) : candidate[k] \notin WordChars \cup { "-" }
        THEN "Tags may only contain letters, numbers, underscores, or hyphens"
        ELSE IF \E k \in 1..Len(tagWas.data.tags) : Lower(tagWas.data.tags[k]) = Lower(candidate)
        THEN "Tag already exists"
        ELSE ""

\* C16: when add_tag fails validation it returns (False, the validation
\* reason) and changes nothing: the tag list, created, last_modified and
\* tags.json are what they were before the call.
C16_FailedAddChangesNothing ==
    (tagRet.op = "add" /\ AddRefusal # "") =>
        /\ ~tagRet.ok /\ ~tagRet.raised
        /\ tagRet.message = AddRefusal
        /\ tagData = tagWas.data
        /\ tagFile = tagWas.file

\* an add_tag was refused for an illegal character after the catalog had
\* been changed and saved
C16_Witness ==
    /\ tagRet.op = "add"
    /\ AddRefusal = "Tags may only contain letters, numbers, underscores, or hyphens"
    /\ tagData.last_modified > 1
    /\ tagData.last_modified < Now - 1
    /\ tagFile.kind = "json"

\* the last call was an add_tag, remove_tag or reset_to_defaults that
\* returned success
Mutated == tagRet.op \in { "add", "remove", "reset" } /\ tagRet.ok

\* C17: after every successful add_tag, remove_tag or reset_to_defaults the
\* tag list in tags.json equals get_all_tags() in the same order, so a new
\* instance on the same directory returns the same list; after
\* reset_to_defaults that list is the default vocabulary.
C17_FileMirrorsCatalog ==
    Mutated =>
        /\ tagFile.kind = "json"
        /\ tagFile.data.tags = get_all_tags
        /\ Loaded(tagFile).tags = get_all_tags
        /\ tagRet.op = "reset" => get_all_tags = default_tags

\* the tags of the list that equal tag when both are lower-cased and trimmed
SuchTags(tag) == { k \in 1..Len(get_all_tags) : Lower(get_all_tags[k]) = Lower(Strip(tag)) }

\* threads t and u have both returned from add_tag, called with well-formed
\* candidates that are equal case-insensitively
BothAdded(t, u) ==
    /\ t # u
    /\ adders[t].pc = "done" /\ adders[u].pc = "done"
    /\ ~adders[t].raised /\ ~adders[u].raised
    /\ VALID_TAG_PATTERN(Strip(adders[t].tag))
    /\ Lower(Strip(adders[t].tag)) = Lower(Strip(adders[u].tag))

\* C18: when two threads call add_tag on one catalog concurrently with
\* candidates that are equal case-insensitively, at most one call returns ok
\* and the catalog ends with exactly one such tag.
C18_OneOfTwoAddsWins ==
    \A t, u \in TagThreads :
        BothAdded(t, u) =>
            /\ ~(adders[t].ok /\ adders[u].ok)
            /\ Cardinality(SuchTags(adders[t].tag)) = 1

\* analyze_filenames has returned
Analyzed == anOut # NotAnalyzed

\* the file names of the request in which at least one token matches the tag
\* case-insensitively
FilesWith(tag) ==
    { k \in 1..Len(anFiles) :
        \E part \in Range(parse_filename(anFiles[k])) : Lower(part) = Lower(tag) }

\* the spellings _tag_lookup reports the known tags in
ReportedTags == { anLookup[key] : key \in DOMAIN anLookup }

\* C19: for every list of file names and set of known tags, tag_frequency[t]
\* equals the number of file names in which at least one token matches t
\* case-insensitively; a file name that repeats a tag token counts once, so
\* no frequency exceeds the number of file names.
C19_FrequencyCountsFiles ==
    Analyzed =>
        /\ \A tag \in DOMAIN anOut.tag_frequency :
            /\ anOut.tag_frequency[tag] = Cardinality(FilesWith(tag))
            /\ anOut.tag_frequency[tag] <= Len(anFiles)
        /\ \A tag \in ReportedTags :
            FilesWith(tag) # {} => tag \in DOMAIN anOut.tag_frequency

\* C20: a tag is in suggested_tags if and only if the number of file names
\* containing it is at least half the number of file names: 2 of 4 and 2 of 3
\* are suggested, 1 of 3 and 1 of 4 are not, and with a single file every
\* matched tag is suggested.
C20_SuggestedIffHalfTheFiles ==
    Analyzed /\ anFiles # <<>> =>
        \A tag \in ReportedTags :
            tag \in Range(anOut.suggested_tags)
                <=> 2 * Cardinality(FilesWith(tag)) >= Len(anFiles)

\* the token lists of the file names of the request
TokenLists == [k \in 1..Len(anFiles) |-> parse_filename(anFiles[k])]

\* the tokens at offset i agree in every file name when lower-cased; the
\* offsets count from the front, or from the back
AgreeAt(i, fromBack) ==
    \A k \in 1..Len(anFiles) :
        LET At(list) == IF fromBack THEN list[Len(list) + 1 - i] ELSE list[i]
        IN  Lower(At(TokenLists[k])) = Lower(At(TokenLists[1]))

\* length of the longest run of agreeing offsets
LongestRun(fromBack) ==
    LET shortest == CHOOSE n \in { Len(TokenLists[k]) : k \in 1..Len(anFiles) } :
                        \A k \in 1..Len(anFiles) : n <= Len(TokenLists[k])
        runs == { n \in 0..shortest : \A i \in 1..n : AgreeAt(i, fromBack) }
    IN  CHOOSE n \in runs : \A m \in runs : m <= n

\* the token matches no known tag
NoKnownTag(token) == \A tag \in anKnown : Lower(tag) # Lower(token)

\* the tokens of the run in the first file name's casing, known tags removed,
\* joined by underscores
ExpectedPrefix ==
    IF anFiles = <<>> THEN <<>>
    ELSE Join(SelectSeq(SubSeq(TokenLists[1], 1, LongestRun(FALSE)), NoKnownTag), <<"_">>)

ExpectedSuffix ==
    IF anFiles = <<>> THEN <<>>
    ELSE LET first == TokenLists[1]
         IN  Join(SelectSeq(SubSeq(first, Len(first) + 1 - LongestRun(TRUE), Len(first)),
                            NoKnownTag), <<"_">>)

\* C21: suggested_prefix is the underscore-join of the longest run of leading
\* tokens that agree case-insensitively, position by position, in every file
\* name, in the first file name's casing and without the tokens that match a
\* known tag; suggested_suffix is the same for the trailing tokens; both are
\* empty when there is no common run.
C21_PrefixSuffixAreCommonRuns ==
    Analyzed =>
        /\ anOut.suggested_prefix = ExpectedPrefix
        /\ anOut.suggested_suffix = ExpectedSuffix
        /\ anFiles # <<>> /\ LongestRun(FALSE) = 0 => anOut.suggested_prefix = <<>>
        /\ anFiles # <<>> /\ LongestRun(TRUE) = 0 => anOut.suggested_suffix = <<>>

\* file names that spell their common leading token differently: the prefix
\* reported is the first file name's spelling
C21_Witness ==
    /\ Analyzed
    /\ Len(anFiles) >= 2
    /\ \E k \in 2..Len(anFiles) : TokenLists[k][1] # TokenLists[1][1]
    /\ anOut.suggested_prefix # <<>>
    /\ anOut.suggested_prefix = TokenLists[1][1]

\* what analyze_filenames can return for the known tags and file names of the
\* request: one result per dictionary that __init__ can build
PossibleResults == { analyze_filenames(lookup, anFiles) : lookup \in TagLookups(anKnown) }

\* C22: the analyzer is deterministic: two runs on the same file names and
\* the same known tags return identical suggested_tags, suggested_prefix,
\* suggested_suffix and tag_frequency, spelling of the tags included, also
\* for known tags that contain case variants of one tag.
C22_AnalyzerDeterministic ==
    Analyzed =>
        \A other \in PossibleResults :
            /\ other.suggested_tags = anOut.suggested_tags
            /\ other.suggested_prefix = anOut.suggested_prefix
            /\ other.suggested_suffix = anOut.suggested_suffix
            /\ other.tag_frequency = anOut.tag_frequency

NonEmptyPart(part) == part # <<>>

\* the name C23 describes for the arguments of the call
ExpectedName ==
    LET parts == SelectSeq(<<genArgs.prefix>> \o SortedTags(genArgs.tags) \o <<genArgs.suffix>>,
                           NonEmptyPart)
        stem == IF parts = <<>> THEN Untitled ELSE Join(parts, <<"_">>)
        dotted == IF genArgs.extension = <<>> \/ genArgs.extension[1] = "."
                  THEN genArgs.extension
                  ELSE <<".">> \o genArgs.extension
    IN  stem \o <<"_">> \o Format03d(genArgs.counter) \o dotted

\* C23: generate_filename returns the non-empty parts among prefix, the tags
\* sorted case-insensitively and suffix joined by underscores, or "untitled"
\* when no part is non-empty; then an underscore and the counter zero-padded
\* to 3 digits; then the extension with one leading dot.
C23_NameIsNonEmptyPartsCounterExtension ==
    genOut # NotCalled => genOut = ExpectedName

\* the items of the batch that rename_file has been called for
Processed == 1..Len(bOutcome)

FailedItems == { i \in Processed : ~bOutcome[i].success }

\* C24: batch_rename_files never raises: whatever goes wrong with item i, a
\* non-path input included, exactly one failed result is recorded for it,
\* failed is incremented once, and the loop goes on to item i+1.
C24_OneFailedResultPerBadItem ==
    bPc # "idle" =>
        /\ Len(bResults) = Len(bOutcome)
        /\ bStats.failed = Cardinality(FailedItems)
        /\ Len(bErrors) = Cardinality(FailedItems)
        /\ bPc = "done" => Len(bOutcome) = Len(bArgs.file_paths)

\* C25: a progress callback is invoked exactly once per item, in input order,
\* with the index counting from 1, the total and that item's result, after
\* the result is recorded; a callback that raises changes neither results,
\* counts nor counter and does not stop later items.
C25_CallbackOncePerItem ==
    (bPc # "idle" /\ bArgs.callback = "given") =>
        /\ Len(bCalls) = Len(bOutcome)
        /\ \A i \in 1..Len(bCalls) :
            /\ i <= Len(bOutcome)
            /\ bCalls[i][1] = i
            /\ bCalls[i][2] = Len(bArgs.file_paths)
            /\ bCalls[i][3] = bOutcome[i]
            /\ i <= Len(bResults) /\ bResults[i] = bOutcome[i]

\* rename_file is at or past the move of a call that renames
MoveRenames == mover.pc # "idle" /\ Renamed(mover.result)

\* the entries that are neither at the source nor at the new path
Bystanders(fs) ==
    { e \in fs : <<e.dir, e.name>> \notin { renArgs.src, mover.result.new_path } }

\* C26: a successful rename_file that does not skip is one atomic step: before
\* it the file exists only at the source path, after it only at new_path, in
\* no state at both or at neither, and every other file of the source and
\* destination directories is unchanged.
C26_RenameIsOneStep ==
    MoveRenames =>
        /\ PathExists(renBefore.files, renArgs.src)
        /\ ~PathExists(renBefore.files, mover.result.new_path)
        /\ PathExists(files, renArgs.src) # PathExists(files, mover.result.new_path)
        /\ mover.pc = "done" => PathExists(files, mover.result.new_path)
        /\ Bystanders(files) = Bystanders(renBefore.files)

\* the future has its result and its done callbacks have run
Settled(f) == futures[f].state = "finished" /\ ~futures[f].callback

\* the future is an entry of _inflight
Registered(f) == \E p \in ImagePaths : inflight[p] = f

\* no generation that queue_thumbnail submitted is pending, running or
\* about to run its callback
NothingUnsettled == \A f \in FutureIds : futures[f].state = "unused" \/ Settled(f)

\* C27: every queued generation is eventually removed from the in-flight
\* registry after it settles, whether it succeeded or produced a placeholder;
\* once no queued generation is unsettled the registry is empty.
C27_RegistryDrains ==
    /\ \A f \in FutureIds :
          (futures[f].state # "unused") ~> (Settled(f) /\ ~Registered(f))
    /\ [](\A f \in FutureIds : Settled(f) => ~Registered(f))
    /\ [](NothingUnsettled => \A p \in ImagePaths : inflight[p] = 0)

\* a queued generation that produced a placeholder has settled and its entry
\* is gone
C27_Witness ==
    \E f \in FutureIds :
        /\ Settled(f)
        /\ futures[f].path \in failedPaths
        /\ inflight[futures[f].path] = 0
        /\ NothingUnsettled

\* caller s is back from a shutdown call
Returned(s) == shut.pc[s] = "returned"

\* the step is one of a shutdown call that started after self._shutdown was set
LateShutdownStep ==
    /\ shut.flag
    /\ shut'.pc # shut.pc

\* C28: shutdown() returns only after every generation queued before it has
\* settled, cancelling none of them; a second shutdown() call, sequential or
\* concurrent with the first, returns without error and has no further effect.
C28_ShutdownDrains ==
    /\ [](\A s \in ShutdownCallers :
            Returned(s) => \A f \in shut.before[s] : Settled(f))
    /\ [][LateShutdownStep =>
            /\ shut'.flag /\ shut'.executor = shut.executor
            /\ UNCHANGED thVars]_vars
    /\ \A s \in ShutdownCallers : (shut.pc[s] = "executor") ~> Returned(s)

\* both callers were inside shutdown together with a generation queued, and
\* both are back
C28_Witness ==
    /\ \A s \in ShutdownCallers : Returned(s) /\ shut.before[s] # {}
    /\ \E f \in FutureIds : Settled(f) /\ futures[f].path \in failedPaths

\* generations that have started and not returned: futures that are pending
\* or running and get_thumbnail calls past their freshness check
InFlight ==
    { <<"future", f>> : f \in { g \in FutureIds : futures[g].state \in { "pending", "running" } } }
        \cup { <<"thread", t>> : t \in { u \in Threads : thr[u].pc \in { "open", "flush" } } }

\* C29: clear_cache removes every cache file present when it runs and returns
\* without waiting for or cancelling generations in flight, which still
\* settle; after a clear_cache with no generation in flight no cache file
\* remains and the next get_thumbnail for any path regenerates.
C29_ClearRemovesAndLetsRun ==
    /\ [][ClearCache =>
            /\ \A p \in ImagePaths : ~cache'[p].exists
            /\ \A f \in FutureIds : futures'[f].state = futures[f].state
            /\ \A t \in Threads : thr'[t].pc = thr[t].pc
            /\ InFlight = {} => \A p \in ImagePaths : ~CacheValid(source'[p], cache'[p])]_vars
    /\ [][\A p \in ImagePaths :
            (GetChecks("t1", p) /\ ~cache[p].exists) => GetRegenerates("t1")]_vars
    /\ \A f \in FutureIds :
          (futures[f].state \in { "pending", "running" }) ~> Settled(f)

\* clear_cache ran while a queued generation had the cache file open: the
\* generation is still running and there is no cache file
C29_Witness ==
    \E f \in FutureIds :
        /\ futures[f].state = "running"
        /\ futures[f].detached
        /\ ~cache[futures[f].path].exists

\* C30: when writing the backing file fails during add_tag, remove_tag or
\* reset_to_defaults the failure is absorbed: the call does not raise.
C30_WriteFailureAbsorbed ==
    tagRet.op \in { "add", "remove", "reset" } => ~tagRet.raised

\* what the trimmed candidate must be for validate to say ok
TagAllowed(tags, tag) ==
    LET candidate == Strip(tag)
    IN  /\ candidate # <<>>
        /\ \A i \in 1..Len(candidate) : candidate[i] \in AsciiWordChars \cup { "-" }
        /\ \A k \in 1..Len(tags) : Lower(tags[k]) # Lower(candidate)

\* C31: validate_tag returns ok exactly when the trimmed candidate is
\* non-empty, every character of it is in [A-Za-z0-9_-] and no existing tag
\* equals it case-insensitively; a candidate with any other character, such
\* as a non-ASCII letter, is rejected.
C31_ValidateAcceptsOnlyAsciiWord ==
    \A tag \in AddCandidates :
        validate_tag(get_all_tags, tag).ok <=> TagAllowed(get_all_tags, tag)

\* the same with candidates whose characters are all ASCII
C31_AsciiCandidates ==
    \A tag \in AddCandidates :
        (Range(tag) \cap NonAsciiLetters = {}) =>
            (validate_tag(get_all_tags, tag).ok <=> TagAllowed(get_all_tags, tag))

\* positions of the tags that equal the candidate of the last call, ignoring case
MatchesBefore == { k \in 1..Len(tagBefore) : Lower(tagBefore[k]) = Lower(Strip(tagRet.arg)) }

RemoveOutcomeAsStated ==
    IF MatchesBefore # {}
    THEN /\ tagRet.ok
         /\ ~tagRet.raised
         /\ \E k \in MatchesBefore : get_all_tags = Pop(tagBefore, k)
    ELSE /\ ~tagRet.ok
         /\ tagRet.message = "Tag not found"
         /\ tagData = tagWas.data
         /\ tagFile = tagWas.file

\* C32: remove_tag succeeds exactly when some tag equals the candidate
\* case-insensitively; it then removes that one tag and keeps the others in
\* their order; when no tag matches it fails with "Tag not found" and changes
\* neither the list in memory nor tags.json.
C32_RemoveOneOrNotFound == tagRet.op = "remove" => RemoveOutcomeAsStated

\* the same for calls whose write succeeded and whose candidate is not blank
C32_WhenWrittenAndNotBlank ==
    (tagRet.op = "remove" /\ ~tagRet.raised /\ Strip(tagRet.arg) # <<>>) => RemoveOutcomeAsStated

\* C33: no sequence of calls on the ThumbnailManager raises to the caller:
\* in every reachable state, also after shutdown, queue_thumbnail for a stale
\* path returns a future and get_thumbnail returns a cache path.
C33_NeverRaises == \A t \in Threads : thr[t].ret.kind # "raised"

\* thread t makes a step of its call: the call itself, or a later step of it
StepOf(t) ==
    \/ thr[t].pc # "idle" /\ thr'[t].pc # thr[t].pc
    \/ /\ thr[t].pc = "idle"
       /\ calls' = calls + 1
       /\ \A u \in Threads \ {t} : thr'[u] = thr[u]

\* a call of thread t returns a cache path, or a future resolved to one
ReturnsPath(t) ==
    /\ StepOf(t)
    /\ thr'[t].pc = "idle"
    /\ thr'[t].ret.kind \in { "path", "resolved" }

\* a queued generation returns its cache path to the future
ResolvesPath(f) == futures[f].state = "running" /\ futures'[f].state = "finished"

\* C34: whenever get_thumbnail returns a cache path, or a future of
\* queue_thumbnail resolves to one, the file at that path is a completely
\* written image at that moment, in every interleaving with other
\* get_thumbnail and queue_thumbnail calls for the same source.
C34_ReturnedFileIsWhole ==
    [][/\ \A t \in Threads :
            (ReturnsPath(t) /\ cache'[thr'[t].path].exists) => cache'[thr'[t].path].complete
       /\ \A f \in FutureIds :
            (ResolvesPath(f) /\ cache'[futures[f].path].exists) => cache'[futures[f].path].complete]_vars

\* the preview of the batch that has run
PreviewOfBatch ==
    get_batch_preview(bArgs.file_paths, bArgs.prefix, bArgs.tags, bArgs.suffix,
                      bArgs.start_counter)

\* the position in the preview of item i of the batch, 0 when it is not listed
PreviewIndex(i) ==
    IF PreviewLists(bArgs.file_paths[i])
    THEN Cardinality({ j \in 1..i : PreviewLists(bArgs.file_paths[j]) })
    ELSE 0

\* C35: get_batch_preview returns, for each supported source in input order,
\* the filename and counter that batch_rename_files, called with the same
\* list, prefix, tags, suffix and start counter, assigns to that source.
C35_PreviewIsWhatBatchAssigns ==
    bPc = "done" =>
        \A i \in 1..Len(bArgs.file_paths) :
            Renamed(bOutcome[i]) =>
                /\ PreviewIndex(i) # 0
                /\ PreviewOfBatch[PreviewIndex(i)].old_path = bOutcome[i].old_path
                /\ PreviewOfBatch[PreviewIndex(i)].new_name = bOutcome[i].filename
                /\ PreviewOfBatch[PreviewIndex(i)].counter = bOutcome[i].counter

\* the same for a batch in which every item is renamed under the first name
\* tried: no name is taken in the destination and no item fails or is skipped
C35_WhenNothingCollides ==
    (bPc = "done" /\ \A i \in 1..Len(bArgs.file_paths) :
                        Renamed(bOutcome[i]) /\ bOutcome[i].counter = bHanded[i]) =>
        \A i \in 1..Len(bArgs.file_paths) :
            /\ PreviewIndex(i) # 0
            /\ PreviewOfBatch[PreviewIndex(i)].new_name = bOutcome[i].filename
            /\ PreviewOfBatch[PreviewIndex(i)].counter = bOutcome[i].counter

\* a call of thread t for p finds the cache file fresh in this step
JudgedFresh(t, p) ==
    /\ thr[t].pc = "idle"
    /\ calls' = calls + 1
    /\ \A u \in Threads \ {t} : thr'[u] = thr[u]
    /\ thr'[t].pc = "idle"
    /\ thr'[t].path = p
    /\ thr'[t].ret.why = "valid"

\* C36: a cache file that get_thumbnail or queue_thumbnail judges fresh was
\* generated from the content the source has at the time of the check, also
\* when the source is rewritten while a generation for it is running.
C36_FreshMeansCurrentContent ==
    [][\A t \in Threads, p \in ImagePaths :
          (JudgedFresh(t, p) /\ cache[p].complete) => cache[p].content = Decode(source[p])]_vars

\* what the directories hold: the contents, by identity, whatever their names
ContentsOf(fs) == { <<e.id, e.kind>> : e \in fs }

InitialContents == { <<1, "file">>, <<2, "file">>, <<3, "file">>, <<4, "dir">> }

\* C37: in a sequential run of rename_file and batch_rename_files calls no
\* file is overwritten or deleted: the directories hold the same contents
\* after the run as before, and no two successful results of one batch that
\* are not skips share a new_path.
C37_NothingOverwritten ==
    /\ ContentsOf(files) = InitialContents
    /\ Cardinality(files) = Cardinality(InitialContents)
    /\ \A i, j \in 1..Len(bResults) :
          (i < j /\ Renamed(bResults[i]) /\ Renamed(bResults[j])) =>
              bResults[i].new_path # bResults[j].new_path

\* a batch has renamed a file under a later counter because the name with the
\* counter handed to it was taken
C37_Witness ==
    /\ bPc = "done"
    /\ \E i \in 1..Len(bOutcome) : Renamed(bOutcome[i]) /\ bOutcome[i].counter > bHanded[i]

\* both calls have returned, they had different sources and otherwise the
\* same arguments
SameRequestTwice ==
    /\ racers["r1"].pc = "done" /\ racers["r2"].pc = "done"
    /\ racers["r1"].args.src # racers["r2"].args.src
    /\ [racers["r1"].args EXCEPT !.src = NonPath] = [racers["r2"].args EXCEPT !.src = NonPath]

\* C38: two rename_file calls on different sources that run concurrently
\* with the same destination directory, prefix, tags, suffix and starting
\* counter never realize the same new_path, so neither file replaces the
\* other.
C38_ConcurrentRenamesDiffer ==
    SameRequestTwice =>
        /\ (Renamed(racers["r1"].result) /\ Renamed(racers["r2"].result)) =>
               racers["r1"].result.new_path # racers["r2"].result.new_path
        /\ ContentsOf(files) = InitialContents

\* C40: rename_file terminates for every starting counter, also a negative
\* one and one above 9999, and every content of the destination directory,
\* and batch_rename_files terminates for every finite list of requests.
C40_RenamesTerminate ==
    /\ \A r \in Racers : (racers[r].pc \in { "loop", "move" }) ~> (racers[r].pc = "done")
    /\ (bPc = "loop") ~> (bPc = "done")

\* a call has returned after its loop ran out of counters, and a batch has
\* returned after more than one item
C40_Witness ==
    \/ \E r \in Racers :
          /\ racers[r].pc = "done"
          /\ racers[r].result.error = "Could not find unique filename"
    \/ bPc = "done" /\ Len(bOutcome) > 1


\* the token count of the shortest file name of the request
ShortestTokenCount ==
    CHOOSE n \in { Len(TokenLists[k]) : k \in 1..Len(anFiles) } :
        \A k \in 1..Len(anFiles) : n <= Len(TokenLists[k])

\* C39: for every non-empty list of file names the common leading run and the
\* common trailing run take their tokens from disjoint positions: their
\* lengths together never exceed the token count of the shortest file name,
\* also for a single file and for identical file names.
C39_PrefixAndSuffixDisjoint ==
    Analyzed /\ anFiles # <<>> =>
        Len(find_common_prefix(TokenLists)) + Len(find_common_suffix(TokenLists))
            <= ShortestTokenCount

====
